---- MODULE Spec2Model ----
(***************************************************************************)
(* A model of the cleaning core of nisapi: the deduplication engine        *)
(* (remove_duplicates, with its synonym resolver), the metric cleaners     *)
(* (clean_estimate, clean_lci_uci, clean_sample_size), enforce_schema,     *)
(* the Validate rule engine and the clean_dataset pipeline; and of what    *)
(* surrounds it: the column editors, clean_time_start_end,                 *)
(* clean_geography, cache_dataset, remove_near_duplicates of the first     *)
(* cleaner and the pager download_dataset_pages.                           *)
(*                                                                         *)
(* Representation.                                                         *)
(*  - A polars frame is a record [schema, rows]: schema is the sequence of *)
(*    <<name, dtype>>; rows is a bag of records keyed by column name.  The *)
(*    order of rows is not kept: group_by does not preserve it and nothing *)
(*    modelled here reads it.                                              *)
(*  - A Float64 proportion p is the integer p * 1000 * Den, where Den is   *)
(*    a common multiple of every possible group size, so that the mean of  *)
(*    a group is computed exactly.  Float rounding is not modelled.        *)
(*  - A raised RuntimeError is a tag naming its message.                   *)
(***************************************************************************)
EXTENDS Bags, FiniteSets, Integers, Sequences, TLC

\* pc: where the call is; df, args: the frame and the arguments of the
\* call; res, res2: what the call and a second call gave; problems, printed:
\* what Validate found and what was printed; cache: the files under the
\* cache path; requests: the calls made to fetch data, in order
VARIABLES pc, df, args, res, res2, problems, printed, cache, requests

vars == <<pc, df, args, res, res2, problems, printed, cache, requests>>

(***************************************************************************)
(* Bounds.                                                                 *)
(***************************************************************************)
\* the largest number of rows of an input frame
MaxRows == 3

(***************************************************************************)
(* Numbers.                                                                *)
(***************************************************************************)
RECURSIVE Factorial(_)
Factorial(n) == IF n <= 1 THEN 1 ELSE n * Factorial(n - 1)

\* every group size 1..MaxRows divides Den
Den == Factorial(MaxRows)

\* the proportion n/1000
PerMille(n) == n * Den

Abs(x) == IF x < 0 THEN 0 - x ELSE x

Min(a, b) == IF a <= b THEN a ELSE b

Max(a, b) == IF a >= b THEN a ELSE b

RECURSIVE SetMax(_)
SetMax(S) ==
    LET x == CHOOSE x \in S : TRUE
    IN  IF S = {x} THEN x ELSE Max(x, SetMax(S \ {x}))

Range(s) == {s[i] : i \in 1..Len(s)}

(***************************************************************************)
(* The canonical schema.                                                   *)
(***************************************************************************)
data_schema ==
    << <<"vaccine", "String">>,
       <<"geography_type", "String">>,
       <<"geography", "String">>,
       <<"domain_type", "String">>,
       <<"domain", "String">>,
       <<"indicator_type", "String">>,
       <<"indicator", "String">>,
       <<"time_type", "String">>,
       <<"time_start", "Date">>,
       <<"time_end", "Date">>,
       <<"estimate", "Float64">>,
       <<"lci", "Float64">>,
       <<"uci", "Float64">>,
       <<"sample_size", "UInt32">> >>

\* schema.names()
SchemaNames(schema) == [i \in 1..Len(schema) |-> schema[i][1]]

(***************************************************************************)
(* Frames.                                                                 *)
(***************************************************************************)
\* a frame: its schema, a sequence of <<name, dtype>>, and its rows
\* no file and no directory at the cache path
Absent == "absent"

NoCache == [file |-> Absent, dir |-> Absent, root |-> TRUE]

NoFrame == [schema |-> <<>>, rows |-> EmptyBag]

Frame(schema, rows) == [schema |-> schema, rows |-> rows]

\* frame.columns
Columns(frame) == SchemaNames(frame.schema)

\* the dtype of column c
DType(frame, c) ==
    frame.schema[CHOOSE i \in 1..Len(frame.schema) : frame.schema[i][1] = c][2]

\* frame.height
Height(rows) == BagCardinality(rows)

\* the number of rows of B, copies counted, among the rows in S
RECURSIVE CountOver(_, _)
CountOver(B, S) ==
    IF S = {} THEN 0
    ELSE LET r == CHOOSE r \in S : TRUE
         IN  B[r] + CountOver(B, S \ {r})

\* the bag holding F(r) once per copy of each row r of B
BagMap(B, F(_)) ==
    [x \in {F(r) : r \in DOMAIN B} |->
        CountOver(B, {r \in DOMAIN B : F(r) = x})]

\* frame.filter(P)
BagFilter(B, P(_)) == [r \in {x \in DOMAIN B : P(x)} |-> B[r]]

\* a row restricted to a set of columns
Restrict(r, C) == [c \in C |-> r[c]]

\* frame.drop(columns), on the rows
DropColumns(B, C) == BagMap(B, LAMBDA r : Restrict(r, (DOMAIN r) \ C))

\* left.join(right, on = on, how = "anti"): the rows of left with no partner
AntiJoin(left, right, on) ==
    BagFilter(left, LAMBDA r :
        ~ \E s \in DOMAIN right : \A c \in on : r[c] = s[c])

\* the sum of column c over the rows of B
RECURSIVE SumOver(_, _, _)
SumOver(B, S, c) ==
    IF S = {} THEN 0
    ELSE LET r == CHOOSE r \in S : TRUE
         IN  B[r] * r[c] + SumOver(B, S \ {r}, c)

\* a reconciliation that picks the largest value of the group
MeanPicksMax(B, c) == SetMax({r[c] : r \in DOMAIN B})

\* pl.col(c).mean() over the rows of a group
Mean(B, c) == SumOver(B, DOMAIN B, c) \div Height(B)

(***************************************************************************)
(* remove_duplicates and its synonym resolver.                             *)
(***************************************************************************)
\* an optional argument left out (no call passes an empty tuple or list)
None == <<>>

value_columns == {"estimate", "lci", "uci"}

group_columns == Range(SchemaNames(data_schema)) \ value_columns

\* a tolerance check that lets a spread equal to the tolerance through
MeanMaxDiffLe(B, c, tolerance) ==
    SetMax({Abs(r[c] - Mean(B, c)) : r \in DOMAIN B}) <= tolerance

\* the comparison turned around
MeanMaxDiffGt(B, c, tolerance) ==
    SetMax({Abs(r[c] - Mean(B, c)) : r \in DOMAIN B}) > tolerance

\* (x - x.mean()).abs().max() < tolerance, x the column c of the group B
_mean_max_diff(B, c, tolerance) ==
    SetMax({Abs(r[c] - Mean(B, c)) : r \in DOMAIN B}) < tolerance

\* the rows of B that fall in the group with key k
Group(B, k) == BagFilter(B, LAMBDA r : Restrict(r, group_columns) = k)

\* the keys of df.group_by(group_columns)
GroupKeys(B) == {Restrict(r, group_columns) : r \in DOMAIN B}

\* the groups left by .filter(pl.all_horizontal(value_columns).not_())
bad_groups(B, tolerance) ==
    {k \in GroupKeys(B) :
        ~ \A c \in value_columns : _mean_max_diff(Group(B, k), c, tolerance)}

\* one output row of group_by(group_columns).agg(pl.col(value_columns).mean())
MeanRow(B, k) ==
    [c \in group_columns \cup value_columns |->
        IF c \in value_columns THEN Mean(Group(B, k), c) ELSE k[c]]

GroupByMean(B) == SetToBag({MeanRow(B, k) : k \in GroupKeys(B)})

\* df.filter((pl.col(col) == syn) for col, syn in zip(synonym_columns, synonym))
sub_df(B, synonym_columns, synonym) ==
    BagFilter(B, LAMBDA r :
        \A i \in 1..Min(Len(synonym_columns), Len(synonym)) :
            r[synonym_columns[i]] = synonym[i])

\* a reference chosen as the smallest row-set
RefIdxSmallest(B, synonym_columns, synonyms) ==
    CHOOSE i \in 1..Len(synonyms) :
        /\ \A j \in 1..Len(synonyms) :
              Height(sub_df(B, synonym_columns, synonyms[j]))
                  >= Height(sub_df(B, synonym_columns, synonyms[i]))
        /\ \A j \in 1..(i - 1) :
              Height(sub_df(B, synonym_columns, synonyms[j]))
                  > Height(sub_df(B, synonym_columns, synonyms[i]))

\* max(range(len(sub_dfs)), key = height): the first of the largest
ref_idx(B, synonym_columns, synonyms) ==
    CHOOSE i \in 1..Len(synonyms) :
        /\ \A j \in 1..Len(synonyms) :
              Height(sub_df(B, synonym_columns, synonyms[j]))
                  <= Height(sub_df(B, synonym_columns, synonyms[i]))
        /\ \A j \in 1..(i - 1) :
              Height(sub_df(B, synonym_columns, synonyms[j]))
                  < Height(sub_df(B, synonym_columns, synonyms[i]))

\* sub_dfs[ref_idx].drop(synonym_columns)
ref_df(B, synonym_columns, synonyms) ==
    DropColumns(sub_df(B, synonym_columns,
                       synonyms[ref_idx(B, synonym_columns, synonyms)]),
                Range(synonym_columns))

\* sub_df.drop(synonym_columns).join(ref_df, on = ref_df.columns, how = "anti")
extra_rows(frame, synonym_columns, synonyms, j) ==
    AntiJoin(DropColumns(sub_df(frame.rows, synonym_columns, synonyms[j]),
                         Range(synonym_columns)),
             ref_df(frame.rows, synonym_columns, synonyms),
             Range(Columns(frame)) \ Range(synonym_columns))

\* the loop over sub_dfs raises at the first one that has extra rows
SynonymMismatch(frame, synonym_columns, synonyms) ==
    \E j \in 1..Len(synonyms) :
        Height(extra_rows(frame, synonym_columns, synonyms, j)) > 0

\* pl.concat(sub_dfs)
RECURSIVE ConcatSubDfs(_, _, _, _)
ConcatSubDfs(B, synonym_columns, synonyms, n) ==
    IF n = 0 THEN EmptyBag
    ELSE ConcatSubDfs(B, synonym_columns, synonyms, n - 1)
            (+) sub_df(B, synonym_columns, synonyms[n])

\* ref_df.with_columns([pl.lit(syn).alias(col) ...  synonyms[0]])
Relabel(R, synonym_columns, synonym) ==
    BagMap(R, LAMBDA r :
        [c \in (DOMAIN r) \cup Range(synonym_columns) |->
            IF \E i \in 1..Min(Len(synonym_columns), Len(synonym)) :
                   synonym_columns[i] = c
            THEN synonym[CHOOSE i \in 1..Min(Len(synonym_columns), Len(synonym)) :
                            synonym_columns[i] = c]
            ELSE r[c]])

\* a merge that forgets to discard the synonym rows
MergeKeepsAll(frame, synonym_columns, synonyms) ==
    frame.rows (+) Relabel(ref_df(frame.rows, synonym_columns, synonyms),
                           synonym_columns, synonyms[1])

\* the frame that replaces df once the synonyms are resolved
merge_synonyms(frame, synonym_columns, synonyms) ==
    AntiJoin(frame.rows,
             ConcatSubDfs(frame.rows, synonym_columns, synonyms, Len(synonyms)),
             Range(Columns(frame)) \ Range(synonym_columns))
        (+) Relabel(ref_df(frame.rows, synonym_columns, synonyms),
                    synonym_columns, synonyms[1])

\* the rows that reach the tolerance check
resolved(frame, synonym_columns, synonyms) ==
    IF synonym_columns = None THEN frame.rows
    ELSE merge_synonyms(frame, synonym_columns, synonyms)

\* the messages of the RuntimeErrors remove_duplicates raises
ErrNoSynonyms == "If 'synonym columns' are provided, 'synonyms' must be too."

ErrSynonyms == "Declared synonyms are not really synonyms."

ErrClash == "Some identical groups have clashing values:"

\* the result of a call: the error raised, or the frame returned; order is
\* the iteration order of the Python sets group_columns and value_columns
remove_duplicates(frame, tolerance, synonym_columns, synonyms, order) ==
    IF synonym_columns # None /\ synonyms = None
    THEN [err |-> ErrNoSynonyms,
          frame |-> NoFrame]
    ELSE IF /\ synonym_columns # None
            /\ SynonymMismatch(frame, synonym_columns, synonyms)
    THEN [err |-> ErrSynonyms,
          frame |-> NoFrame]
    ELSE IF bad_groups(resolved(frame, synonym_columns, synonyms),
                       tolerance) # {}
    THEN [err |-> ErrClash,
          frame |-> NoFrame]
    ELSE [err |-> "none",
          frame |-> Frame([i \in 1..Len(order) |->
                              <<order[i],
                                IF order[i] \in value_columns THEN "Float64"
                                ELSE DType(frame, order[i])>>],
                     GroupByMean(resolved(frame, synonym_columns, synonyms)))]

(***************************************************************************)
(* Inputs of remove_duplicates.                                            *)
(***************************************************************************)
\* a frame built from a sequence of rows
SeqToBag(s) == [x \in Range(s) |-> Cardinality({i \in 1..Len(s) : s[i] = x})]

BagsOf(R) == {SeqToBag(s) : s \in UNION {[1..n -> R] : n \in 0..MaxRows}}

BaseRow ==
    [vaccine |-> "flu", geography_type |-> "admin1", geography |-> "Texas",
     domain_type |-> "age", domain |-> "18-49 years",
     indicator_type |-> "up-to-date", indicator |-> "Yes",
     time_type |-> "week",
     time_start |-> <<2025, 8, 14>>, time_end |-> <<2025, 8, 20>>,
     estimate |-> PerMille(500), lci |-> PerMille(400), uci |-> PerMille(600),
     sample_size |-> 10]

\* the synonyms declared for dataset ker6-gs6z
KerSynonymColumns == <<"indicator_type", "indicator">>

KerSynonyms ==
    << <<"4-level vaccination and intent", "Vaccinated">>,
       <<"up-to-date", "Yes">> >>

Labels == Range(KerSynonyms) \cup {<<"up-to-date", "No">>}

\* estimate, lci, uci triples: the second and third lie 0.001 above and
\* below the first in every value
Metrics == {<<500, 400, 600>>, <<501, 401, 601>>, <<499, 399, 599>>}

DedupRow(geo, label, m) ==
    [BaseRow EXCEPT !.geography = geo,
                    !.indicator_type = label[1], !.indicator = label[2],
                    !.estimate = PerMille(m[1]), !.lci = PerMille(m[2]),
                    !.uci = PerMille(m[3])]

\* the rows of a second state differ from each other in lci alone
DedupRows ==
    {DedupRow("Texas", l, m) : l \in Labels, m \in Metrics}
        \cup {DedupRow("Ohio", <<"up-to-date", "Yes">>, m) :
                 m \in {<<500, 400, 600>>, <<500, 401, 600>>}}

\* the default tolerance is 0.001
Tolerances == {0, PerMille(1), PerMille(2)}

DedupArgs ==
    {[tolerance |-> t, synonym_columns |-> None, synonyms |-> None] :
        t \in Tolerances}
    \cup {[tolerance |-> t, synonym_columns |-> KerSynonymColumns,
           synonyms |-> KerSynonyms] : t \in Tolerances}
    \cup {[tolerance |-> PerMille(1), synonym_columns |-> KerSynonymColumns,
           synonyms |-> None]}

\* two iteration orders of the output columns
Reverse(s) == [i \in 1..Len(s) |-> s[Len(s) + 1 - i]]

ColumnOrders ==
    {SchemaNames(data_schema), Reverse(SchemaNames(data_schema))}

NoResult == [err |-> "not called", frame |-> NoFrame]

(***************************************************************************)
(* SpecDedup: remove_duplicates is called on a frame, then either on its   *)
(* own output with the same arguments, or on the same frame with another   *)
(* tolerance.                                                              *)
(***************************************************************************)
InitDedup ==
    /\ pc = "dedup"
    /\ df \in {Frame(data_schema, B) : B \in BagsOf(DedupRows)}
    /\ args \in DedupArgs
    /\ res = NoResult
    /\ res2 = NoResult
    /\ problems = <<>>
    /\ printed = <<>>
    /\ cache = NoCache
    /\ requests = <<>>

RemoveDuplicates ==
    /\ pc = "dedup"
    /\ \E order \in ColumnOrders :
          res' = remove_duplicates(df, args.tolerance, args.synonym_columns,
                                   args.synonyms, order)
    /\ pc' = "deduped"
    /\ UNCHANGED <<df, args, res2, problems, printed, cache, requests>>

\* the output goes through remove_duplicates again
RemoveDuplicatesAgain ==
    /\ pc = "deduped"
    /\ res.err = "none"
    /\ \E order \in ColumnOrders :
          res2' = [of |-> "output", tolerance |-> args.tolerance] @@
                  remove_duplicates(res.frame, args.tolerance,
                                    args.synonym_columns, args.synonyms, order)
    /\ pc' = "done"
    /\ UNCHANGED <<df, args, res, problems, printed, cache, requests>>

\* the same frame goes through remove_duplicates with another tolerance
RemoveDuplicatesRetry ==
    /\ pc = "deduped"
    /\ \E t \in Tolerances \ {args.tolerance}, order \in ColumnOrders :
          res2' = [of |-> "input", tolerance |-> t] @@
                  remove_duplicates(df, t, args.synonym_columns,
                                    args.synonyms, order)
    /\ pc' = "done"
    /\ UNCHANGED <<df, args, res, problems, printed, cache, requests>>

NextDedup == RemoveDuplicates \/ RemoveDuplicatesAgain \/ RemoveDuplicatesRetry

SpecDedup == InitDedup /\ [][NextDedup]_vars

(***************************************************************************)
(* Properties of remove_duplicates.                                        *)
(***************************************************************************)
SynonymsDeclared == args.synonym_columns # None /\ args.synonyms # None

\* the call got past the synonym resolver
Resolved == pc # "dedup" /\ res.err \notin {ErrNoSynonyms, ErrSynonyms}

\* the rows whose groups the tolerance check sees
Checked == resolved(df, args.synonym_columns, args.synonyms)

SameGroup(r, s) == \A c \in group_columns : r[c] = s[c]

GroupRows(B, r) == {s \in DOMAIN B : SameGroup(r, s)}

GroupSize(B, r) == CountOver(B, GroupRows(B, r))

GroupSum(B, r, c) == SumOver(B, GroupRows(B, r), c)

\* max |x - mean(x)| >= tolerance in column c of the group of r, with the
\* division by the group size multiplied out
Violates(B, r, c, tolerance) ==
    \E s \in GroupRows(B, r) :
        Abs(GroupSize(B, r) * s[c] - GroupSum(B, r, c))
            >= GroupSize(B, r) * tolerance

NoViolation(B, tolerance) ==
    \A r \in DOMAIN B, c \in value_columns : ~ Violates(B, r, c, tolerance)

\* C1: when no group violates the tolerance, remove_duplicates returns exactly
\* one row per distinct combination of the group columns, and that row's
\* estimate, lci and uci are the arithmetic means of the group's values.
C1_OneMeanRowPerGroup ==
    (Resolved /\ NoViolation(Checked, args.tolerance)) =>
        /\ res.err = "none"
        /\ \A r \in DOMAIN Checked :
              \E o \in DOMAIN res.frame.rows :
                  /\ SameGroup(o, r)
                  /\ \A c \in value_columns :
                        GroupSize(Checked, r) * o[c] = GroupSum(Checked, r, c)
        /\ \A o \in DOMAIN res.frame.rows :
              /\ res.frame.rows[o] = 1
              /\ DOMAIN o = group_columns \cup value_columns
              /\ \E r \in DOMAIN Checked : SameGroup(o, r)
              /\ \A o2 \in DOMAIN res.frame.rows : SameGroup(o, o2) => o2 = o

\* two rows of one group, 0.001 apart in every value, collapsed to their mean
C1_Witness ==
    /\ pc = "deduped"
    /\ args.synonym_columns = None
    /\ res.err = "none"
    /\ df.rows = SeqToBag(<<DedupRow("Texas", <<"up-to-date", "Yes">>,
                                     <<500, 400, 600>>),
                            DedupRow("Texas", <<"up-to-date", "Yes">>,
                                     <<501, 401, 601>>)>>)
    /\ \E o \in DOMAIN res.frame.rows :
          /\ 2 * o.estimate = PerMille(1001)
          /\ 2 * o.lci = PerMille(801)
          /\ 2 * o.uci = PerMille(1201)

\* C2: remove_duplicates raises and returns no frame whenever some group has
\* a value column in which max |x - mean(x)| is not strictly less than the
\* tolerance.
C2_ClashRaises ==
    (Resolved /\ ~ NoViolation(Checked, args.tolerance)) =>
        /\ res.err = ErrClash
        /\ res.frame = NoFrame

\* a group whose spread equals the tolerance is refused
C2_Witness ==
    /\ pc = "deduped"
    /\ args.synonym_columns = None
    /\ args.tolerance = PerMille(1)
    /\ res.err = ErrClash
    /\ df.rows = SeqToBag(<<DedupRow("Texas", <<"up-to-date", "Yes">>,
                                     <<501, 401, 601>>),
                            DedupRow("Texas", <<"up-to-date", "Yes">>,
                                     <<499, 399, 599>>)>>)

\* C3: whenever remove_duplicates succeeds, applying it again to its output
\* with the same arguments succeeds and returns the same rows.
C3_Idempotent ==
    (pc = "done" /\ res2.of = "output") =>
        /\ res2.err = "none"
        /\ res2.frame.rows = res.frame.rows

\* C4: if remove_duplicates accepts a frame with tolerance t it accepts it
\* with every larger tolerance, and if it rejects it with t it rejects it
\* with every smaller one.
C4_ToleranceMonotone ==
    (pc = "done" /\ res2.of = "input") =>
        /\ (res.err = "none" /\ res2.tolerance >= args.tolerance)
              => res2.err = "none"
        /\ (res.err # "none" /\ res2.tolerance <= args.tolerance)
              => res2.err # "none"

\* a frame accepted with one tolerance and rejected with a smaller one
C4_Witness ==
    /\ pc = "done"
    /\ res2.of = "input"
    /\ res.err = "none"
    /\ res2.tolerance < args.tolerance
    /\ res2.err = ErrClash

\* the rows of df labelled with the j-th declared synonym
Labelled(j) ==
    {r \in DOMAIN df.rows :
        \A i \in 1..Len(args.synonym_columns) :
            r[args.synonym_columns[i]] = args.synonyms[j][i]}

\* a row without its synonym columns
Stripped(r) == Restrict(r, (DOMAIN r) \ Range(args.synonym_columns))

\* the j-th synonym has the most rows, and is the first to have that many
IsReference(j) ==
    /\ \A k \in 1..Len(args.synonyms) :
          CountOver(df.rows, Labelled(k)) <= CountOver(df.rows, Labelled(j))
    /\ \A k \in 1..(j - 1) :
          CountOver(df.rows, Labelled(k)) < CountOver(df.rows, Labelled(j))

\* some synonym has a row that the reference row-set does not hold
NotSuperset ==
    \E j \in 1..Len(args.synonyms) :
        /\ IsReference(j)
        /\ \E k \in 1..Len(args.synonyms) :
              \E r \in Labelled(k) :
                  \A s \in Labelled(j) : Stripped(r) # Stripped(s)

\* C9: with synonyms declared, remove_duplicates takes the synonym with the
\* most rows as reference and raises whenever another synonym's row-set,
\* with the synonym columns removed, holds a row that is not in the
\* reference row-set; it proceeds only if the reference is a superset.
C9_SynonymCheck ==
    (pc # "dedup" /\ SynonymsDeclared) =>
        (res.err = ErrSynonyms <=> NotSuperset)

\* both synonyms have rows, and the smaller one has a row of its own
C9_Witness ==
    /\ pc = "deduped"
    /\ SynonymsDeclared
    /\ res.err = ErrSynonyms
    /\ \A j \in 1..Len(args.synonyms) : Labelled(j) # {}
    /\ \E j \in 1..Len(args.synonyms) :
          CountOver(df.rows, Labelled(j)) >= 2

\* the row r carrying the values of the j-th synonym in the synonym columns
LabelledAs(r, j) ==
    [c \in DOMAIN r |->
        IF \E i \in 1..Len(args.synonym_columns) : args.synonym_columns[i] = c
        THEN args.synonyms[j][CHOOSE i \in 1..Len(args.synonym_columns) :
                                 args.synonym_columns[i] = c]
        ELSE r[c]]

HasLabel(r, j) ==
    \A i \in 1..Len(args.synonym_columns) :
        r[args.synonym_columns[i]] = args.synonyms[j][i]

ErrMissing == "Missing columns:"

\* df.select(columns), on the rows
SelectColumns(B, C) == BagMap(B, LAMBDA r : Restrict(r, C))

\* the elements of s that are in C, in the order of s
RECURSIVE KeepIn(_, _)
KeepIn(s, C) ==
    IF s = <<>> THEN <<>>
    ELSE IF Head(s) \in C THEN <<Head(s)>> \o KeepIn(Tail(s), C)
    ELSE KeepIn(Tail(s), C)

\* the schema of df.select(columns)
SelectSchema(frame, columns) ==
    [i \in 1..Len(columns) |-> <<columns[i], DType(frame, columns[i])>>]

\* a selection that keeps the columns in the order the frame has them
EnforceKeepsOrder(frame, schema) ==
    LET current_columns == Columns(frame)
        needed_columns == SchemaNames(schema)
        missing_columns == Range(needed_columns) \ Range(current_columns)
        extra_columns == Range(current_columns) \ Range(needed_columns)
    IN  IF missing_columns # {}
        THEN [err |-> ErrMissing, warnings |-> {}, frame |-> NoFrame]
        ELSE [err |-> "none",
              warnings |-> IF extra_columns # {}
                           THEN {<<"Dropped columns:", extra_columns>>}
                           ELSE {},
              frame |-> Frame(SelectSchema(frame,
                                  KeepIn(current_columns, Range(needed_columns))),
                              SelectColumns(frame.rows, Range(needed_columns)))]

enforce_schema(frame, schema) ==
    LET current_columns == Columns(frame)
        needed_columns == SchemaNames(schema)
        missing_columns == Range(needed_columns) \ Range(current_columns)
        extra_columns == Range(current_columns) \ Range(needed_columns)
    IN  IF missing_columns # {}
        THEN [err |-> ErrMissing, warnings |-> {}, frame |-> NoFrame]
        ELSE [err |-> "none",
              warnings |-> IF extra_columns # {}
                           THEN {<<"Dropped columns:", extra_columns>>}
                           ELSE {},
              frame |-> Frame(SelectSchema(frame, needed_columns),
                              SelectColumns(frame.rows, Range(needed_columns)))]

(***************************************************************************)
(* SpecSchema: enforce_schema is called on frames whose columns are the    *)
(* canonical ones with some left out, some added, in several orders.       *)
(***************************************************************************)
\* columns that a raw extract carries and the schema does not have
ExtraColumns == <<"supp_flag", "ci">>

\* canonical columns that the input may lack
Droppable == {"vaccine", "lci"}

Rotate(s) == IF s = <<>> THEN s ELSE Tail(s) \o <<Head(s)>>

\* the orders of a column list that the inputs take
Orders(s) == {s, Reverse(s), Rotate(s), Rotate(Reverse(s))}

SchemaColumnLists ==
    UNION {Orders(KeepIn(SchemaNames(data_schema) \o ExtraColumns,
                            (Range(SchemaNames(data_schema)) \ missing)
                                \cup extra)) :
              missing \in SUBSET Droppable, extra \in SUBSET Range(ExtraColumns)}

\* a row over the given columns; e is its estimate
SchemaRow(columns, e) ==
    [c \in Range(columns) |->
        IF c = "estimate" THEN PerMille(e)
        ELSE IF c \in DOMAIN BaseRow THEN BaseRow[c]
        ELSE "0"]

SchemaFrames ==
    UNION {{Frame([i \in 1..Len(columns) |->
                      <<columns[i],
                        IF columns[i] \in Range(SchemaNames(data_schema))
                        THEN DType(Frame(data_schema, EmptyBag), columns[i])
                        ELSE "String">>], B) :
               B \in BagsOf({SchemaRow(columns, e) : e \in {500, 501}})} :
              columns \in SchemaColumnLists}

InitSchema ==
    /\ pc = "enforce"
    /\ df \in SchemaFrames
    /\ args = <<>>
    /\ res = NoResult
    /\ res2 = NoResult
    /\ problems = <<>>
    /\ printed = <<>>
    /\ cache = NoCache
    /\ requests = <<>>

EnforceSchema ==
    /\ pc = "enforce"
    /\ res' = enforce_schema(df, data_schema)
    /\ pc' = "enforced"
    /\ UNCHANGED <<df, args, res2, problems, printed, cache, requests>>

NextSchema == EnforceSchema

SpecSchema == InitSchema /\ [][NextSchema]_vars

\* C6: enforce_schema raises if and only if some canonical column is absent
\* from the input; otherwise, whatever the order of the columns and whatever
\* extra columns there are, the output has exactly the canonical columns in
\* canonical order and the same rows.
C6_EnforceSchema ==
    pc = "enforced" =>
        /\ res.err = ErrMissing <=>
              \E i \in 1..Len(data_schema) :
                  \A k \in 1..Len(df.schema) : df.schema[k][1] # data_schema[i][1]
        /\ res.err # ErrMissing =>
              /\ res.err = "none"
              /\ Len(res.frame.schema) = Len(data_schema)
              /\ \A i \in 1..Len(data_schema) :
                    res.frame.schema[i][1] = data_schema[i][1]
              /\ Height(res.frame.rows) = Height(df.rows)
              /\ \A o \in DOMAIN res.frame.rows :
                    /\ DOMAIN o = {data_schema[i][1] : i \in 1..Len(data_schema)}
                    /\ res.frame.rows[o] =
                          CountOver(df.rows,
                              {r \in DOMAIN df.rows :
                                  \A c \in DOMAIN o : r[c] = o[c]})

\* every canonical column is there, out of order, among extra columns, and
\* the frame has rows
C6_Witness ==
    /\ pc = "enforced"
    /\ res.err = "none"
    /\ Len(df.schema) > Len(data_schema)
    /\ df.schema[1][1] # data_schema[1][1]
    /\ Height(df.rows) >= 2
    /\ res.warnings # {}

(***************************************************************************)
(* Strings, regular expressions and dates.                                 *)
(***************************************************************************)
\* a null in a String column
Null == "<null>"

\* s[i..j], empty when the range leaves the string
Sub(s, i, j) == IF 1 <= i /\ i <= j /\ j <= Len(s) THEN SubSeq(s, i, j) ELSE ""

CharAt(s, i) == Sub(s, i, i)

\* \d
Digits == {"0", "1", "2", "3", "4", "5", "6", "7", "8", "9"}

\* \s
Whitespace == {" ", "\t", "\n", "\r", "\f"}

\* the first position at or after i that holds no digit
RECURSIVE SkipDigits(_, _)
SkipDigits(s, i) ==
    IF i <= Len(s) /\ CharAt(s, i) \in Digits THEN SkipDigits(s, i + 1) ELSE i

\* ^\d+$ with exactly n digits when n > 0, with one or more when n = 0
AllDigits(s, n) ==
    /\ Len(s) >= 1
    /\ SkipDigits(s, 1) = Len(s) + 1
    /\ n > 0 => Len(s) = n

\* the number of days from 1970-01-01 to the date <<y, m, d>>
DayNumber(date) ==
    LET y == IF date[2] <= 2 THEN date[1] - 1 ELSE date[1]
        era == y \div 400
        yoe == y - era * 400
        mp == IF date[2] > 2 THEN date[2] - 3 ELSE date[2] + 9
        doy == (153 * mp + 2) \div 5 + date[3] - 1
        doe == yoe * 365 + yoe \div 4 - yoe \div 100 + doy
    IN  era * 146097 + doe - 719468

(***************************************************************************)
(* The Validate rule engine.                                               *)
(***************************************************************************)
admin1_values ==
    {"Alabama", "Alaska", "Arizona", "Arkansas", "California", "Colorado",
     "Connecticut", "Delaware", "Florida", "Georgia", "Hawaii", "Idaho",
     "Illinois", "Indiana", "Iowa", "Kansas", "Kentucky", "Louisiana",
     "Maine", "Maryland", "Massachusetts", "Michigan", "Minnesota",
     "Mississippi", "Missouri", "Montana", "Nebraska", "Nevada",
     "New Hampshire", "New Jersey", "New Mexico", "New York",
     "North Carolina", "North Dakota", "Ohio", "Oklahoma", "Oregon",
     "Pennsylvania", "Rhode Island", "South Carolina", "South Dakota",
     "Tennessee", "Texas", "Utah", "Vermont", "Virginia", "Washington",
     "West Virginia", "Wisconsin", "Wyoming", "District of Columbia", "Guam",
     "Puerto Rico", "U.S. Virgin Islands"}

VALIDATION_MODES == {"warn", "error", "ignore"}

\* df[column].to_list(), as a set
ColumnValues(B, column) == {r[column] : r \in DOMAIN B}

\* a predicate that misses whitespace at the end of the string
HasExcessWhitespaceNoTrailing(x) ==
    \/ \E i \in 1..Len(x) : CharAt(x, i) \in Whitespace \ {" "}
    \/ \E i \in 1..(Len(x) - 1) :
          CharAt(x, i) \in Whitespace /\ CharAt(x, i + 1) \in Whitespace
    \/ CharAt(x, 1) \in Whitespace

\* the predicate of _has_excess_whitespace on a non-null string
_has_excess_whitespace(x) ==
    \/ \E i \in 1..Len(x) : CharAt(x, i) \in Whitespace \ {" "}
    \/ \E i \in 1..(Len(x) - 1) :
          CharAt(x, i) \in Whitespace /\ CharAt(x, i + 1) \in Whitespace
    \/ CharAt(x, 1) \in Whitespace
    \/ CharAt(x, Len(x)) \in Whitespace

\* one problem per bad value, in the order unique() gave the values; the
\* filter leaves a null out
validate_whitespace(unique, column) ==
    LET bad == KeepIn(unique[column],
                      {x \in Range(unique[column]) :
                          x # Null /\ _has_excess_whitespace(x)})
    IN  [i \in 1..Len(bad) |-> <<"Bad whitespace in column", column, bad[i]>>]

validate_vaccine(B, column) ==
    LET bad_vaccines == ColumnValues(B, column) \
            {"flu", "covid", "flu_h1n1", "flu_seasonal_or_h1n1", "nirsevimab",
             "rsv_maternal", "rsv"}
    IN  IF bad_vaccines # {} THEN << <<"Bad vaccine values", bad_vaccines>> >>
        ELSE <<>>

bad_value_error(column_name, values, expected) ==
    LET bad_values == values \ expected
    IN  IF bad_values # {}
        THEN << <<"Bad values in", column_name, bad_values>> >>
        ELSE <<>>

\* ^Region \d+$
IsRegionName(x) ==
    /\ Sub(x, 1, 7) = "Region "
    /\ Len(x) >= 8
    /\ SkipDigits(x, 8) = Len(x) + 1

\* a validate_geography without the rule for counties
ValidateGeographyNoCounty(B, type_column, value_column) ==
    LET bad_nation_values ==
            {r[value_column] : r \in {x \in DOMAIN B :
                x[type_column] = "nation" /\ x[value_column] # "nation"}}
        bad_region_values ==
            {r[value_column] : r \in {x \in DOMAIN B :
                x[type_column] = "region" /\ ~ IsRegionName(x[value_column])}}
        bad_admin1_values ==
            {r[value_column] : r \in {x \in DOMAIN B :
                x[type_column] = "admin1"
                    /\ x[value_column] \notin admin1_values}}
    IN  bad_value_error(type_column, ColumnValues(B, type_column),
            {"nation", "region", "admin1", "substate", "county", "local"})
        \o (IF bad_nation_values # {}
            THEN << <<"Bad nation values", bad_nation_values>> >> ELSE <<>>)
        \o (IF bad_region_values # {}
            THEN << <<"Bad region values", bad_region_values>> >> ELSE <<>>)
        \o (IF bad_admin1_values # {}
            THEN << <<"Bad admin1 values", bad_admin1_values>> >> ELSE <<>>)

validate_geography(B, type_column, value_column) ==
    LET bad_nation_values ==
            {r[value_column] : r \in {x \in DOMAIN B :
                x[type_column] = "nation" /\ x[value_column] # "nation"}}
        bad_region_values ==
            {r[value_column] : r \in {x \in DOMAIN B :
                x[type_column] = "region" /\ ~ IsRegionName(x[value_column])}}
        bad_admin1_values ==
            {r[value_column] : r \in {x \in DOMAIN B :
                x[type_column] = "admin1"
                    /\ x[value_column] \notin admin1_values}}
        bad_county_values ==
            {r[value_column] : r \in {x \in DOMAIN B :
                x[type_column] = "county" /\ ~ AllDigits(x[value_column], 5)}}
    IN  bad_value_error(type_column, ColumnValues(B, type_column),
            {"nation", "region", "admin1", "substate", "county", "local"})
        \o (IF bad_nation_values # {}
            THEN << <<"Bad nation values", bad_nation_values>> >> ELSE <<>>)
        \o (IF bad_region_values # {}
            THEN << <<"Bad region values", bad_region_values>> >> ELSE <<>>)
        \o (IF bad_admin1_values # {}
            THEN << <<"Bad admin1 values", bad_admin1_values>> >> ELSE <<>>)
        \o (IF bad_county_values # {}
            THEN << <<"Bad county values", bad_county_values>> >> ELSE <<>>)

\* the grammar without its fourth regular expression
IsValidAgeGroupThree(x) ==
    LET j == SkipDigits(x, 1)
        k == SkipDigits(x, j + 1)
        m == SkipDigits(x, j + 8)
    IN  \/ /\ j > 1 /\ CharAt(x, j) = "-" /\ k > j + 1
           /\ Sub(x, k, Len(x)) \in {" months", " years"}
        \/ /\ j > 1
           /\ Sub(x, j, Len(x)) \in {"+ years", "+ months"}
        \/ /\ j > 1 /\ Sub(x, j, j + 7) = " months-" /\ m > j + 8
           /\ Sub(x, m, Len(x)) = " years"

\* the four regular expressions of is_valid_age_group
is_valid_age_group(x) ==
    LET j == SkipDigits(x, 1)
        k == SkipDigits(x, j + 1)
        m == SkipDigits(x, j + 8)
    IN  \/ /\ j > 1 /\ CharAt(x, j) = "-" /\ k > j + 1
           /\ Sub(x, k, Len(x)) \in {" months", " years"}
        \/ /\ j > 1
           /\ Sub(x, j, Len(x)) \in {"+ years", "+ months"}
        \/ /\ j > 1 /\ Sub(x, j, j + 7) = " months-" /\ m > j + 8
           /\ Sub(x, m, Len(x)) = " years"
        \/ /\ j > 1 /\ CharAt(x, j) = "-" /\ k > j + 1
           /\ Sub(x, k, Len(x)) = " years (high risk)"

validate_age_groups(B) ==
    LET age_groups == {r.domain : r \in {x \in DOMAIN B : x.domain_type = "age"}}
        invalid_age_groups ==
            {x \in age_groups : x # Null /\ ~ is_valid_age_group(x)}
    IN  IF invalid_age_groups # {}
        THEN << <<"Invalid age groups", invalid_age_groups>> >>
        ELSE <<>>

\* rows_with_any_null; the frames validated here have nulls in String
\* columns only
rows_with_any_null(frame) ==
    BagFilter(frame.rows, LAMBDA r :
        \E i \in 1..Len(frame.schema) :
            frame.schema[i][2] = "String" /\ r[frame.schema[i][1]] = Null)

\* (time_end - time_start).dt.total_days()
Interval(r) == DayNumber(r.time_end) - DayNumber(r.time_start)

\* a rule engine that stops looking once it has found a problem
\* in one of the value columns
RangeProblemsFirstOnly(B) ==
    LET bad == {col \in value_columns :
                  \E r \in DOMAIN B : ~ (0 <= r[col] /\ r[col] <= PerMille(1000))}
    IN  IF "estimate" \in bad THEN << <<"is not in range 0-1", "estimate">> >>
        ELSE IF "lci" \in bad THEN << <<"is not in range 0-1", "lci">> >>
        ELSE IF "uci" \in bad THEN << <<"is not in range 0-1", "uci">> >>
        ELSE <<>>

\* for col in ["estimate", "lci", "uci"]: one problem if not all in [0, 1]
RangeProblems(B) ==
    LET Bad(col) ==
            IF \E r \in DOMAIN B : ~ (0 <= r[col] /\ r[col] <= PerMille(1000))
            THEN << <<"is not in range 0-1", col>> >> ELSE <<>>
    IN  Bad("estimate") \o Bad("lci") \o Bad("uci")

\* the problems of a frame; unique[column] is the order in which
\* pl.col(column).unique() gives the values of the column
get_problems(frame, unique) ==
    LET B == frame.rows
    IN  (IF frame.schema # data_schema
         THEN << <<"Bad schema", frame.schema>> >> ELSE <<>>)
        \o (IF \E r \in DOMAIN B : B[r] > 1
            THEN << <<"Duplicated rows">> >> ELSE <<>>)
        \o (IF \E r \in DOMAIN B :
                  CountOver(B, {x \in DOMAIN B :
                      Restrict(x, (DOMAIN x) \ value_columns)
                          = Restrict(r, (DOMAIN r) \ value_columns)}) > 1
            THEN << <<"Duplicated groups">> >> ELSE <<>>)
        \o (IF Height(rows_with_any_null(frame)) > 0
            THEN << <<"Null values in rows">> >> ELSE <<>>)
        \o validate_whitespace(unique, "domain_type")
        \o validate_whitespace(unique, "domain")
        \o validate_whitespace(unique, "indicator_type")
        \o validate_whitespace(unique, "indicator")
        \o validate_vaccine(B, "vaccine")
        \o validate_geography(B, "geography_type", "geography")
        \o validate_age_groups(B)
        \o (IF \E r \in DOMAIN B : r.time_type \notin {"week", "month"}
            THEN << <<"Bad time type",
                      ColumnValues(B, "time_type") \ {"week", "month"}>> >>
            ELSE <<>>)
        \o (IF \E r \in DOMAIN B : Interval(r) \notin {6, 7, 8, 28, 29, 30, 31}
            THEN << <<"Unusual intervals between time_start and time_end">> >>
            ELSE <<>>)
        \o RangeProblems(B)
        \o (IF \E r \in DOMAIN B : ~ (r.lci <= r.estimate /\ r.estimate <= r.uci)
            THEN << <<"confidence intervals do not bracket estimate">> >>
            ELSE <<>>)
        \o (IF \E r \in DOMAIN B : ~ (r.sample_size > 0)
            THEN << <<"Non-positive sample sizes">> >> ELSE <<>>)

\* self.validate() raising in error mode whether or not there are problems
ValidateAlwaysRaises(id, frame, mode, unique) ==
    LET found == get_problems(frame, unique)
        shown == IF Len(found) > 0 /\ mode # "ignore"
                 THEN << [i \in 1..Len(found) |-> <<id, found[i]>>] >>
                 ELSE <<>>
    IN  [problems |-> found,
         printed |-> shown,
         err |-> IF mode = "error" THEN "Validation problems" ELSE "none"]

\* self.validate(): what it leaves in self.problems, the texts it prints (one
\* print call with a line per problem) and the error it raises
validate(id, frame, mode, unique) ==
    LET found == get_problems(frame, unique)
    IN  IF Len(found) > 0 /\ mode # "ignore"
        THEN [problems |-> found,
              printed |-> << [i \in 1..Len(found) |-> <<id, found[i]>>] >>,
              err |-> IF mode = "error" THEN "Validation problems" ELSE "none"]
        ELSE [problems |-> found, printed |-> <<>>, err |-> "none"]

(***************************************************************************)
(* SpecValidate: Validate(id, df, mode) is constructed on frames that      *)
(* carry zero or more defects.                                             *)
(***************************************************************************)
\* the permutations of a finite set, as sequences
RECURSIVE Perms(_)
Perms(S) ==
    IF S = {} THEN {<<>>}
    ELSE UNION {{<<x>> \o p : p \in Perms(S \ {x})} : x \in S}

WhitespaceColumns == {"domain_type", "domain", "indicator_type", "indicator"}

\* the orders in which unique() may give the values of each checked column
UniqueOrders(frame) ==
    {[domain_type |-> a, domain |-> b, indicator_type |-> c, indicator |-> d] :
        a \in Perms(ColumnValues(frame.rows, "domain_type")),
        b \in Perms(ColumnValues(frame.rows, "domain")),
        c \in Perms(ColumnValues(frame.rows, "indicator_type")),
        d \in Perms(ColumnValues(frame.rows, "indicator"))}

\* a row without defects, and rows that differ from it by one defect
GoodRow == [BaseRow EXCEPT !.indicator = "yes"]

ValidateRows ==
    {GoodRow,
     [GoodRow EXCEPT !.time_start = <<2025, 8, 21>>, !.time_end = <<2025, 8, 27>>],
     [GoodRow EXCEPT !.estimate = PerMille(501)],
     [GoodRow EXCEPT !.estimate = PerMille(1200), !.lci = PerMille(1100),
                     !.uci = PerMille(1300)],
     [GoodRow EXCEPT !.lci = PerMille(600), !.uci = PerMille(700)],
     [GoodRow EXCEPT !.sample_size = 0],
     [GoodRow EXCEPT !.indicator = "received  a  vaccination"],
     [GoodRow EXCEPT !.indicator = " yes"],
     [GoodRow EXCEPT !.indicator = Null],
     [GoodRow EXCEPT !.vaccine = "mmr"],
     [GoodRow EXCEPT !.geography_type = "nation"],
     [GoodRow EXCEPT !.geography_type = "state"],
     [GoodRow EXCEPT !.domain = "18-49"],
     [GoodRow EXCEPT !.time_type = "day"],
     [GoodRow EXCEPT !.time_end = <<2025, 8, 24>>]}

\* the canonical schema, and one whose sample_size is not a UInt32
ValidateSchemas ==
    {data_schema,
     [i \in 1..Len(data_schema) |->
        IF data_schema[i][1] = "sample_size" THEN <<"sample_size", "Int64">>
        ELSE data_schema[i]]}

ValidateArgs == {[id |-> "test_df", mode |-> m] : m \in VALIDATION_MODES \cup {"strict"}}

InitValidate ==
    /\ pc = "validate"
    /\ df \in {Frame(schema, B) : schema \in ValidateSchemas, B \in BagsOf(ValidateRows)}
    /\ args \in ValidateArgs
    /\ res = NoResult
    /\ res2 = NoResult
    /\ problems = <<>>
    /\ printed = <<>>
    /\ cache = NoCache
    /\ requests = <<>>

\* Validate.__init__: an unknown mode raises before anything is checked
ValidateInit ==
    /\ pc = "validate"
    /\ IF args.mode \notin VALIDATION_MODES
       THEN /\ res' = [err |-> "Unknown mode", frame |-> NoFrame]
            /\ UNCHANGED <<problems, printed>>
       ELSE \E unique \in UniqueOrders(df) :
              LET v == validate(args.id, df, args.mode, unique)
              IN  /\ problems' = v.problems
                  /\ printed' = printed \o v.printed
                  /\ res' = [err |-> v.err, frame |-> df]
    /\ pc' = "validated"
    /\ UNCHANGED <<df, args, res2, cache, requests>>

NextValidate == ValidateInit

SpecValidate == InitValidate /\ [][NextValidate]_vars

\* C7: in mode error Validate raises if and only if at least one problem is
\* found, after printing all of them; in mode warn it prints the problems
\* and never raises; in mode ignore it prints nothing and never raises.
C7_ValidatorModes ==
    (pc = "validated" /\ args.mode \in VALIDATION_MODES) =>
        /\ args.mode = "error" =>
              /\ res.err = "Validation problems" <=> Len(problems) > 0
              /\ res.err \in {"none", "Validation problems"}
        /\ args.mode \in {"warn", "ignore"} => res.err = "none"
        /\ args.mode = "ignore" => printed = <<>>
        /\ (args.mode \in {"warn", "error"} /\ Len(problems) > 0) =>
              /\ Len(printed) = 1
              /\ Len(printed[1]) = Len(problems)
              /\ \A i \in 1..Len(problems) : printed[1][i][2] = problems[i]
        /\ Len(problems) = 0 => printed = <<>>

\* error mode raised on a frame with several problems, all of them printed
C7_Witness ==
    /\ pc = "validated"
    /\ args.mode = "error"
    /\ res.err = "Validation problems"
    /\ Len(problems) >= 3
    /\ Len(printed) = 1
    /\ Len(printed[1]) = Len(problems)

\* the number of entries of self.problems equal to p
Reported(p) == Cardinality({i \in 1..Len(problems) : problems[i] = p})

\* the number of entries of self.problems of the kind named by tag
ReportedKind(tag) == Cardinality({i \in 1..Len(problems) : problems[i][1] = tag})

OutOfRange(col) ==
    \E r \in DOMAIN df.rows : r[col] < 0 \/ r[col] > PerMille(1000)

\* C8: one run of get_problems evaluates every rule whatever the earlier
\* findings: every violated rule category has its problem, exactly one for
\* each of estimate, lci and uci that leaves [0, 1].
C8_ProblemsAccumulate ==
    (pc = "validated" /\ args.mode \in VALIDATION_MODES) =>
        /\ \A col \in value_columns :
              Reported(<<"is not in range 0-1", col>>)
                  = IF OutOfRange(col) THEN 1 ELSE 0
        /\ ReportedKind("confidence intervals do not bracket estimate")
              = IF \E r \in DOMAIN df.rows : r.lci > r.estimate \/ r.uci < r.estimate
                THEN 1 ELSE 0
        /\ ReportedKind("Non-positive sample sizes")
              = IF \E r \in DOMAIN df.rows : r.sample_size <= 0 THEN 1 ELSE 0
        /\ ReportedKind("Bad schema") = IF df.schema = data_schema THEN 0 ELSE 1
        /\ ReportedKind("Duplicated rows")
              = IF \E r \in DOMAIN df.rows : df.rows[r] >= 2 THEN 1 ELSE 0
        /\ ReportedKind("Null values in rows")
              = IF \E r \in DOMAIN df.rows : r.indicator = Null THEN 1 ELSE 0
        /\ ReportedKind("Bad vaccine values")
              = IF \E r \in DOMAIN df.rows : r.vaccine = "mmr" THEN 1 ELSE 0
        /\ ReportedKind("Bad time type")
              = IF \E r \in DOMAIN df.rows : r.time_type = "day" THEN 1 ELSE 0
        /\ ReportedKind("Bad whitespace in column")
              = Cardinality({r.indicator : r \in DOMAIN df.rows}
                              \cap {"received  a  vaccination", " yes"})

\* estimate, lci and uci all leave [0, 1] in a frame that also has a bad
\* vaccine and a bad sample size: five problems in one run
C8_Witness ==
    /\ pc = "validated"
    /\ args.mode = "warn"
    /\ \A col \in value_columns : OutOfRange(col)
    /\ \A col \in value_columns : Reported(<<"is not in range 0-1", col>>) = 1
    /\ ReportedKind("Bad vaccine values") = 1
    /\ ReportedKind("Non-positive sample sizes") = 1
    /\ Len(problems) = 5

(***************************************************************************)
(* The metric cleaners.                                                    *)
(***************************************************************************)
\* the value of a digit character
DigitValue(ch) == (CHOOSE k \in 1..10 : CharAt("0123456789", k) = ch) - 1

\* the number written by the digits s[i..j]
RECURSIVE DigitsValue(_, _, _)
DigitsValue(s, i, j) ==
    IF j < i THEN 0
    ELSE 10 * DigitsValue(s, i, j - 1) + DigitValue(CharAt(s, j))

\* str -> Float64 cast of a percentage, then / 100.0: the proportion, as a
\* multiple of 0.001.  The strings cast here are decimal numbers with at most
\* one digit after the point; ok is FALSE where the strict cast fails.
CastPercent(s) ==
    LET neg == CharAt(s, 1) = "-"
        start == IF neg THEN 2 ELSE 1
        j == SkipDigits(s, start)
        whole == DigitsValue(s, start, j - 1)
        sign == IF neg THEN 0 - 1 ELSE 1
    IN  IF j = start THEN [ok |-> FALSE, value |-> 0]
        ELSE IF j = Len(s) + 1
        THEN [ok |-> TRUE, value |-> sign * PerMille(10 * whole)]
        ELSE IF CharAt(s, j) = "." /\ Len(s) = j + 1 /\ CharAt(s, j + 1) \in Digits
        THEN [ok |-> TRUE,
              value |-> sign * PerMille(10 * whole + DigitValue(CharAt(s, j + 1)))]
        ELSE [ok |-> FALSE, value |-> 0]

\* str -> UInt32 cast; the sample sizes cast here have at most nine digits,
\* so none overflows
CastUInt32(s) ==
    IF AllDigits(s, 0) /\ Len(s) <= 9
    THEN [ok |-> TRUE, value |-> DigitsValue(s, 1, Len(s))]
    ELSE [ok |-> FALSE, value |-> 0]

\* .clip(lower_bound, upper_bound)
Clip(x, lower_bound, upper_bound) == Max(lower_bound, Min(x, upper_bound))

\* str.contains(r"[a-zA-Z]")
Letters ==
    {"a", "b", "c", "d", "e", "f", "g", "h", "i", "j", "k", "l", "m", "n", "o",
     "p", "q", "r", "s", "t", "u", "v", "w", "x", "y", "z", "A", "B", "C", "D",
     "E", "F", "G", "H", "I", "J", "K", "L", "M", "N", "O", "P", "Q", "R", "S",
     "T", "U", "V", "W", "X", "Y", "Z"}

ContainsLetter(s) == \E i \in 1..Len(s) : CharAt(s, i) \in Letters

\* the first position at which sub occurs in s, 0 if there is none
Find(s, sub) ==
    IF \E i \in 1..(Len(s) - Len(sub) + 1) : Sub(s, i, i + Len(sub) - 1) = sub
    THEN CHOOSE i \in 1..(Len(s) - Len(sub) + 1) :
            /\ Sub(s, i, i + Len(sub) - 1) = sub
            /\ \A k \in 1..(i - 1) : Sub(s, k, k + Len(sub) - 1) # sub
    ELSE 0

\* str.strip_chars()
RECURSIVE StripChars(_)
StripChars(s) ==
    IF Len(s) > 0 /\ CharAt(s, 1) \in Whitespace
    THEN StripChars(Sub(s, 2, Len(s)))
    ELSE IF Len(s) > 0 /\ CharAt(s, Len(s)) \in Whitespace
    THEN StripChars(Sub(s, 1, Len(s) - 1))
    ELSE s

\* df.rename({old: new}), on the schema and on a row
RenameSchema(schema, old, new) ==
    [i \in 1..Len(schema) |->
        IF schema[i][1] = old THEN <<new, schema[i][2]>> ELSE schema[i]]

RenameRow(r, old, new) ==
    [c \in ((DOMAIN r) \ {old}) \cup {new} |-> IF c = new THEN r[old] ELSE r[c]]

\* the schema with the dtype of one column changed
CastSchema(schema, column, dtype) ==
    [i \in 1..Len(schema) |->
        IF schema[i][1] = column THEN <<column, dtype>> ELSE schema[i]]

\* with_columns: the schema with a column set, in place if it is there, at
\* the end if it is not
WithColumnSchema(schema, column, dtype) ==
    IF \E i \in 1..Len(schema) : schema[i][1] = column
    THEN CastSchema(schema, column, dtype)
    ELSE Append(schema, <<column, dtype>>)

\* .drop(column) on the schema
DropSchema(schema, column) ==
    LET keep == KeepIn(SchemaNames(schema), Range(SchemaNames(schema)) \ {column})
    IN  [i \in 1..Len(keep) |->
            schema[CHOOSE k \in 1..Len(schema) : schema[k][1] = keep[i]]]

ErrCast == "conversion from str failed"

\* a clean_estimate that clips at 0 only
CleanEstimateClipsBelow(frame, column) ==
    LET renamed == BagMap(frame.rows, LAMBDA r : RenameRow(r, column, "estimate"))
        bad_estimates == BagFilter(renamed, LAMBDA r : ContainsLetter(r.estimate))
        kept == BagFilter(renamed, LAMBDA r : ~ ContainsLetter(r.estimate))
    IN  IF \E r \in DOMAIN kept : ~ CastPercent(r.estimate).ok
        THEN [err |-> ErrCast, frame |-> NoFrame, printed |-> <<>>]
        ELSE [err |-> "none",
              frame |-> Frame(
                  CastSchema(RenameSchema(frame.schema, column, "estimate"),
                             "estimate", "Float64"),
                  BagMap(kept, LAMBDA r :
                      [r EXCEPT !.estimate = Max(CastPercent(r.estimate).value, 0)])),
              printed |-> IF Height(bad_estimates) > 0
                          THEN <<bad_estimates>> ELSE <<>>]

\* the result of a cleaner: the error raised, the frame returned, and the
\* rows it printed when it dropped them
clean_estimate(frame, column) ==
    LET renamed == BagMap(frame.rows, LAMBDA r : RenameRow(r, column, "estimate"))
        bad_estimates == BagFilter(renamed, LAMBDA r : ContainsLetter(r.estimate))
        kept == BagFilter(renamed, LAMBDA r : ~ ContainsLetter(r.estimate))
    IN  IF \E r \in DOMAIN kept : ~ CastPercent(r.estimate).ok
        THEN [err |-> ErrCast, frame |-> NoFrame, printed |-> <<>>]
        ELSE [err |-> "none",
              frame |-> Frame(
                  CastSchema(RenameSchema(frame.schema, column, "estimate"),
                             "estimate", "Float64"),
                  BagMap(kept, LAMBDA r :
                      [r EXCEPT !.estimate =
                          Clip(CastPercent(r.estimate).value, 0, PerMille(1000))])),
              printed |-> IF Height(bad_estimates) > 0
                          THEN <<bad_estimates>> ELSE <<>>]

\* the text before the first "-" and the text after it, once the separator
\* has been replaced by "-"; the inputs hold the separator
FullRange(s, separator) ==
    LET at == Find(s, separator)
        replaced == IF at = 0 THEN s
                    ELSE Sub(s, 1, at - 1) \o "-"
                            \o Sub(s, at + Len(separator), Len(s))
        dash == Find(replaced, "-")
    IN  [lci |-> StripChars(Sub(replaced, 1, dash - 1)),
         uci |-> StripChars(Sub(replaced, dash + 1, Len(replaced)))]

ErrFormat == "Column format is not recognized."

clean_lci_uci(frame, column, col_format, separator) ==
    LET bad_cis == BagFilter(frame.rows, LAMBDA r : Find(r[column], "NA") > 0)
        kept == BagFilter(frame.rows, LAMBDA r : Find(r[column], "NA") = 0)
        shown == IF Height(bad_cis) > 0 THEN <<bad_cis>> ELSE <<>>
        schema == WithColumnSchema(
                      WithColumnSchema(DropSchema(frame.schema, column),
                                       "lci", "Float64"),
                      "uci", "Float64")
        Put(r, lci, uci) ==
            [c \in ((DOMAIN r) \ {column}) \cup {"lci", "uci"} |->
                IF c = "lci" THEN lci ELSE IF c = "uci" THEN uci ELSE r[c]]
    IN  IF col_format = "half"
        THEN IF \E r \in DOMAIN kept : ~ CastPercent(r[column]).ok
             THEN [err |-> ErrCast, frame |-> NoFrame, printed |-> shown]
             ELSE [err |-> "none",
                   frame |-> Frame(schema, BagMap(kept, LAMBDA r :
                       Put(r,
                           Max(r.estimate - CastPercent(r[column]).value, 0),
                           Min(r.estimate + CastPercent(r[column]).value,
                               PerMille(1000))))),
                   printed |-> shown]
        ELSE IF col_format = "full"
        THEN IF \E r \in DOMAIN kept :
                    \/ ~ CastPercent(FullRange(r[column], separator).lci).ok
                    \/ ~ CastPercent(FullRange(r[column], separator).uci).ok
             THEN [err |-> ErrCast, frame |-> NoFrame, printed |-> shown]
             ELSE [err |-> "none",
                   frame |-> Frame(schema, BagMap(kept, LAMBDA r :
                       Put(r,
                           CastPercent(FullRange(r[column], separator).lci).value,
                           CastPercent(FullRange(r[column], separator).uci).value))),
                   printed |-> shown]
        ELSE [err |-> ErrFormat, frame |-> NoFrame, printed |-> shown]

clean_sample_size(frame, column) ==
    LET renamed == BagMap(frame.rows, LAMBDA r : RenameRow(r, column, "sample_size"))
    IN  IF \E r \in DOMAIN renamed : ~ CastUInt32(r.sample_size).ok
        THEN [err |-> ErrCast, frame |-> NoFrame, printed |-> <<>>]
        ELSE [err |-> "none",
              frame |-> Frame(
                  CastSchema(RenameSchema(frame.schema, column, "sample_size"),
                             "sample_size", "UInt32"),
                  BagMap(renamed, LAMBDA r :
                      [r EXCEPT !.sample_size = CastUInt32(r.sample_size).value])),
              printed |-> <<>>]

(***************************************************************************)
(* Spec: clean_dataset, from clean_estimate on.  The frame it starts from  *)
(* is the one clean_time_start_end hands on: the categorical and the time  *)
(* columns are clean, the metrics are the strings of the raw extract.      *)
(***************************************************************************)
RawSchema ==
    [i \in 1..10 |-> data_schema[i]]
        \o << <<"estimate", "String">>, <<"ci", "String">>,
              <<"unweighted_sample_size", "String">> >>

RawRow(geo, e, ci, n) ==
    [c \in Range(SchemaNames(RawSchema)) |->
        IF c = "geography" THEN geo
        ELSE IF c = "estimate" THEN e
        ELSE IF c = "ci" THEN ci
        ELSE IF c = "unweighted_sample_size" THEN n
        ELSE GoodRow[c]]

\* rows whose ci column holds a half-width
HalfRows ==
    {RawRow("Texas", "50.0", "10.0", "10"),
     RawRow("Texas", "50.1", "10.0", "10"),
     RawRow("Ohio", "50.0", "60.0", "10"),
     RawRow("Ohio", "120.0", "10.0", "25"),
     RawRow("Texas", "six", "10.0", "10"),
     RawRow("Texas", "50.0", "NA", "10"),
     RawRow("Ohio", "50.0", "10.0", "0"),
     RawRow("Ohio", "50.0", "-5.0", "30")}

\* rows whose ci column holds the full range
FullRows ==
    {RawRow("Texas", "50.0", "40.0 to 60.0", "10"),
     RawRow("Texas", "10.0", "0.0 to 100.2", "25"),
     RawRow("Ohio", "50.0", "60.0 to 70.0", "10"),
     RawRow("Texas", "six", "40.0 to 60.0", "10"),
     RawRow("Ohio", "50.0", "NA", "10"),
     RawRow("Ohio", "50.0", "40.0 to 60.0", "0")}

clean_args(col_format) ==
    [clean_estimate |-> [column |-> "estimate"],
     clean_lci_uci |-> [column |-> "ci", col_format |-> col_format,
                        separator |-> "to"],
     clean_sample_size |-> [column |-> "unweighted_sample_size"],
     remove_duplicates |-> [tolerance |-> PerMille(1),
                            synonym_columns |-> None, synonyms |-> None]]

PipelineInputs ==
    {[df |-> Frame(RawSchema, B), col_format |-> "half"] : B \in BagsOf(HalfRows)}
    \cup {[df |-> Frame(RawSchema, B), col_format |-> "full"] :
             B \in BagsOf(FullRows)}
    \cup {[df |-> Frame(RawSchema, SetToBag({r})), col_format |-> "range"] :
             r \in FullRows}

Init ==
    /\ pc = "clean_estimate"
    /\ \E input \in PipelineInputs, mode \in VALIDATION_MODES :
          /\ df = input.df
          /\ args = [id |-> "ker6-gs6z", clean_args |-> clean_args(input.col_format),
                     validation_mode |-> mode]
    /\ res = NoResult
    /\ res2 = NoResult
    /\ problems = <<>>
    /\ printed = <<>>
    /\ cache = NoCache
    /\ requests = <<>>

\* a step of the pipe: the frame goes on, or the error ends the call
Piped(step, next) ==
    /\ printed' = printed \o step.printed
    /\ IF step.err = "none"
       THEN /\ res' = [err |-> "none", frame |-> step.frame]
            /\ pc' = next
       ELSE /\ res' = [err |-> step.err, frame |-> NoFrame]
            /\ pc' = "raised"
    /\ UNCHANGED <<df, args, res2, problems, cache, requests>>

CleanEstimate ==
    /\ pc = "clean_estimate"
    /\ Piped(clean_estimate(df, args.clean_args.clean_estimate.column),
             "clean_lci_uci")

CleanLciUci ==
    /\ pc = "clean_lci_uci"
    /\ Piped(clean_lci_uci(res.frame, args.clean_args.clean_lci_uci.column,
                           args.clean_args.clean_lci_uci.col_format,
                           args.clean_args.clean_lci_uci.separator),
             "clean_sample_size")

CleanSampleSize ==
    /\ pc = "clean_sample_size"
    /\ Piped(clean_sample_size(res.frame, args.clean_args.clean_sample_size.column),
             "remove_duplicates")

PipeRemoveDuplicates ==
    /\ pc = "remove_duplicates"
    /\ \E order \in ColumnOrders :
          Piped(remove_duplicates(res.frame,
                                  args.clean_args.remove_duplicates.tolerance,
                                  args.clean_args.remove_duplicates.synonym_columns,
                                  args.clean_args.remove_duplicates.synonyms,
                                  order) @@ [printed |-> <<>>],
                "enforce_schema")

PipeEnforceSchema ==
    /\ pc = "enforce_schema"
    /\ Piped(enforce_schema(res.frame, data_schema) @@ [printed |-> <<>>],
             "validate")

\* Validate(id = id, df = out, mode = validation_mode); return out
PipeValidate ==
    /\ pc = "validate"
    /\ \E unique \in UniqueOrders(res.frame) :
          LET v == validate(args.id, res.frame, args.validation_mode, unique)
          IN  /\ problems' = v.problems
              /\ printed' = printed \o v.printed
              /\ IF v.err = "none"
                 THEN res' = res /\ pc' = "returned"
                 ELSE res' = [err |-> v.err, frame |-> NoFrame] /\ pc' = "raised"
    /\ UNCHANGED <<df, args, res2, cache, requests>>

Next ==
    \/ CleanEstimate
    \/ CleanLciUci
    \/ CleanSampleSize
    \/ PipeRemoveDuplicates
    \/ PipeEnforceSchema
    \/ PipeValidate

Spec == Init /\ [][Next]_vars

\* C5: every row of every frame that clean_dataset returns, whatever the
\* validation mode and the encoding of the confidence interval, satisfies
\* 0 <= lci <= estimate <= uci <= 1 and sample_size > 0.
C5_RangeInvariant ==
    pc = "returned" =>
        \A r \in DOMAIN res.frame.rows :
            /\ 0 <= r.lci
            /\ r.lci <= r.estimate
            /\ r.estimate <= r.uci
            /\ r.uci <= PerMille(1000)
            /\ r.sample_size > 0

(***************************************************************************)
(* The column editors: _replace_column_name, _replace_column_values and    *)
(* _borrow_column_values.                                                  *)
(***************************************************************************)
\* None where a str is expected
NoStr == "None"

\* str.contains(phrase); the phrases used here hold no character that a
\* regular expression reads specially
Contains(s, phrase) == Find(s, phrase) > 0

UpperCase == "ABCDEFGHIJKLMNOPQRSTUVWXYZ"

LowerCase == "abcdefghijklmnopqrstuvwxyz"

LowerChar(ch) ==
    IF \E k \in 1..26 : CharAt(UpperCase, k) = ch
    THEN CharAt(LowerCase, CHOOSE k \in 1..26 : CharAt(UpperCase, k) = ch)
    ELSE ch

UpperChar(ch) ==
    IF \E k \in 1..26 : CharAt(LowerCase, k) = ch
    THEN CharAt(UpperCase, CHOOSE k \in 1..26 : CharAt(LowerCase, k) = ch)
    ELSE ch

\* str.to_lowercase()
RECURSIVE to_lowercase(_)
to_lowercase(s) ==
    IF Len(s) = 0 THEN ""
    ELSE LowerChar(CharAt(s, 1)) \o to_lowercase(Sub(s, 2, Len(s)))

\* str.replace_many(replace): replace is the dict as the list of its items;
\* the dicts used here have no key that occurs inside another key
RECURSIVE replace_many(_, _)
replace_many(s, replace) ==
    IF Len(s) = 0 THEN ""
    ELSE LET hits == {k \in 1..Len(replace) :
                        /\ Len(replace[k][1]) > 0
                        /\ Sub(s, 1, Len(replace[k][1])) = replace[k][1]}
         IN  IF hits = {}
             THEN CharAt(s, 1) \o replace_many(Sub(s, 2, Len(s)), replace)
             ELSE LET k == CHOOSE k \in hits : \A j \in hits : k <= j
                  IN  replace[k][2]
                        \o replace_many(Sub(s, Len(replace[k][1]) + 1, Len(s)),
                                        replace)

\* " & ".join(phrase) for a str phrase: its characters, joined
RECURSIVE JoinChars(_)
JoinChars(phrase) ==
    IF Len(phrase) <= 1 THEN phrase
    ELSE CharAt(phrase, 1) \o " & " \o JoinChars(Sub(phrase, 2, Len(phrase)))

\* the append loop from its i-th phrase on
RECURSIVE AppendFrom(_, _, _)
AppendFrom(v, append, i) ==
    IF i > Len(append) THEN v
    ELSE AppendFrom(IF Contains(v, append[i]) THEN v
                    ELSE v \o " & " \o JoinChars(append[i]),
                    append, i + 1)

\* the infer loop from its i-th item on
RECURSIVE InferFrom(_, _, _)
InferFrom(v, infer, i) ==
    IF i > Len(infer) THEN v
    ELSE InferFrom(IF Contains(v, infer[i][1]) THEN infer[i][2] ELSE v,
                   infer, i + 1)

\* the expression new_values on one value.  append is None or the list of
\* the phrases, a str argument being the list of that one phrase; infer and
\* replace are None or the list of the items of the dict
new_values(v, lowercase, replace, append, infer) ==
    LET stripped == StripChars(v)
        lowered == IF lowercase THEN to_lowercase(stripped) ELSE stripped
        replaced == IF replace # None THEN replace_many(lowered, replace)
                    ELSE lowered
        appended == IF append # None THEN AppendFrom(replaced, append, 1)
                    ELSE replaced
    IN  IF infer # None THEN InferFrom(appended, infer, 1) ELSE appended

ErrExactlyOne == "Exactly one of 'old_colname' or 'override_value' must be given."

ErrColumnNotFound == "ColumnNotFoundError"

ErrDuplicate == "DuplicateError"

\* the rename of a schema fails on a column that is not there and on a new
\* name that another column has
RenameError(frame, old, new) ==
    IF old \notin Range(Columns(frame)) THEN ErrColumnNotFound
    ELSE IF new # old /\ new \in Range(Columns(frame)) THEN ErrDuplicate
    ELSE "none"

\* a resolver that lets the override win when both are given
ReplaceNameOverrideWins(frame, new_colname, old_colname, override) ==
    IF override # NoStr
    THEN [err |-> "none",
          frame |-> Frame(WithColumnSchema(frame.schema, new_colname, "String"),
                          BagMap(frame.rows, LAMBDA r :
                              [c \in (DOMAIN r) \cup {new_colname} |->
                                  IF c = new_colname THEN override ELSE r[c]]))]
    ELSE IF old_colname = NoStr
    THEN [err |-> ErrExactlyOne, frame |-> NoFrame]
    ELSE [err |-> "none",
          frame |-> Frame(RenameSchema(frame.schema, old_colname, new_colname),
                          BagMap(frame.rows, LAMBDA r :
                              RenameRow(r, old_colname, new_colname)))]

_replace_column_name(frame, new_colname, old_colname, override) ==
    IF old_colname # NoStr
    THEN IF RenameError(frame, old_colname, new_colname) # "none"
         THEN [err |-> RenameError(frame, old_colname, new_colname),
               frame |-> NoFrame]
         ELSE IF override # NoStr
         THEN [err |-> ErrExactlyOne, frame |-> NoFrame]
         ELSE [err |-> "none",
               frame |-> Frame(
                   RenameSchema(frame.schema, old_colname, new_colname),
                   BagMap(frame.rows, LAMBDA r :
                       RenameRow(r, old_colname, new_colname)))]
    ELSE IF override = NoStr
    THEN [err |-> ErrExactlyOne, frame |-> NoFrame]
    ELSE [err |-> "none",
          frame |-> Frame(WithColumnSchema(frame.schema, new_colname, "String"),
                          BagMap(frame.rows, LAMBDA r :
                              [c \in (DOMAIN r) \cup {new_colname} |->
                                  IF c = new_colname THEN override ELSE r[c]]))]

_replace_column_values(frame, colname, lowercase, replace, append, infer) ==
    [err |-> "none",
     frame |-> Frame(frame.schema,
                     BagMap(frame.rows, LAMBDA r :
                         [r EXCEPT ![colname] =
                             new_values(r[colname], lowercase, replace,
                                        append, infer)]))]

\* the transfer loop assigns new_values afresh at every phrase, so the
\* value it leaves is the one of the last phrase
TransferLast(recip, donor, transfer) ==
    IF Contains(donor, transfer[Len(transfer)])
    THEN recip \o transfer[Len(transfer)]
    ELSE recip

\* transfer is None or the list of the phrases, a str argument being the
\* list of that one phrase; no call passes an empty list
_borrow_column_values(frame, recip_colname, donor_colname, transfer) ==
    IF donor_colname = NoStr THEN [err |-> "none", frame |-> frame]
    ELSE [err |-> "none",
          frame |-> Frame(frame.schema,
              BagMap(frame.rows, LAMBDA r :
                  [r EXCEPT ![recip_colname] =
                      IF transfer = None
                      THEN IF r[recip_colname] # r[donor_colname]
                           THEN r[recip_colname] \o " & " \o r[donor_colname]
                           ELSE r[recip_colname]
                      ELSE TransferLast(r[recip_colname], r[donor_colname],
                                        transfer)]))]

(***************************************************************************)
(* SpecEdit: one call of one column editor on a frame of two text columns. *)
(***************************************************************************)
TextSchema == << <<"text_col1", "String">>, <<"text_col2", "String">> >>

TextRow(a, b) == [text_col1 |-> a, text_col2 |-> b]

TextRows ==
    {TextRow("area", "PA"), TextRow("area", "US"), TextRow("age", "18+"),
     TextRow("age", "18- 45"), TextRow(" Area ", "PA"),
     TextRow("area by age", "18- 45"), TextRow("age", "age")}

ReplaceDicts == {None, << <<"area", "Area">>, <<"age", "Age">> >>}

AppendLists == {None, <<"age">>, <<"area", "age">>}

InferDicts ==
    {None,
     << <<"area", "region">> >>,
     << <<"area", "region">>, <<"age", "years">> >>,
     << <<"by age", "age">>, <<"age", "years">> >>}

TransferLists == {None, <<"18">>, <<"18", "45">>}

NoEditArgs ==
    [fn |-> "", new_colname |-> NoStr, old_colname |-> NoStr,
     override |-> NoStr, colname |-> NoStr, lowercase |-> TRUE,
     replace |-> None, append |-> None, infer |-> None,
     recip_colname |-> NoStr, donor_colname |-> NoStr, transfer |-> None]

EditArgs ==
    {[NoEditArgs EXCEPT !.fn = "_replace_column_name", !.new_colname = n,
                        !.old_colname = o, !.override = v] :
        n \in {"new_name", "text_col1"},
        o \in {NoStr, "text_col1", "text_col2", "text_col3"},
        v \in {NoStr, "some_category_type"}}
    \cup
    {[NoEditArgs EXCEPT !.fn = "_replace_column_values", !.colname = "text_col1",
                        !.lowercase = l, !.replace = r, !.append = a,
                        !.infer = i] :
        l \in BOOLEAN, r \in ReplaceDicts, a \in AppendLists, i \in InferDicts}
    \cup
    {[NoEditArgs EXCEPT !.fn = "_borrow_column_values",
                        !.recip_colname = "text_col1", !.donor_colname = d,
                        !.transfer = t] :
        d \in {NoStr, "text_col2"}, t \in TransferLists}

InitEdit ==
    /\ pc = "edit"
    /\ \E B \in BagsOf(TextRows) : df = Frame(TextSchema, B)
    /\ args \in EditArgs
    /\ res = NoResult
    /\ res2 = NoResult
    /\ problems = <<>>
    /\ printed = <<>>
    /\ cache = NoCache
    /\ requests = <<>>

ReplaceColumnName ==
    /\ pc = "edit"
    /\ args.fn = "_replace_column_name"
    /\ res' = _replace_column_name(df, args.new_colname, args.old_colname,
                                   args.override)
    /\ pc' = "edited"
    /\ UNCHANGED <<df, args, res2, problems, printed, cache, requests>>

ReplaceColumnValues ==
    /\ pc = "edit"
    /\ args.fn = "_replace_column_values"
    /\ res' = _replace_column_values(df, args.colname, args.lowercase,
                                     args.replace, args.append, args.infer)
    /\ pc' = "edited"
    /\ UNCHANGED <<df, args, res2, problems, printed, cache, requests>>

BorrowColumnValues ==
    /\ pc = "edit"
    /\ args.fn = "_borrow_column_values"
    /\ res' = _borrow_column_values(df, args.recip_colname, args.donor_colname,
                                    args.transfer)
    /\ pc' = "edited"
    /\ UNCHANGED <<df, args, res2, problems, printed, cache, requests>>

NextEdit ==
    \/ ReplaceColumnName
    \/ ReplaceColumnValues
    \/ BorrowColumnValues

SpecEdit == InitEdit /\ [][NextEdit]_vars

\* the value the editor holds before the infer loop
BeforeInfer(v) ==
    new_values(v, args.lowercase, args.replace, args.append, None)

\* the items of the infer dict whose trigger the value contains
Matching(v) == {i \in 1..Len(args.infer) : Contains(v, args.infer[i][1])}

\* the value of the first matching trigger, the value itself if none matches
FirstMatchWins(v) ==
    IF Matching(v) = {} THEN v
    ELSE args.infer[CHOOSE i \in Matching(v) : \A j \in Matching(v) : i <= j][2]

\* C11: infer is a priority-ordered override chain: a row whose value
\* contains a trigger ends with the value mapped to the first such trigger
\* of the dict, and a row that matches no trigger keeps its value.
C11_InferFirstMatchWins ==
    (pc = "edited" /\ args.fn = "_replace_column_values" /\ args.infer # None) =>
        res.frame.rows =
            BagMap(df.rows, LAMBDA r :
                [r EXCEPT !.text_col1 = FirstMatchWins(BeforeInfer(r.text_col1))])

\* the value the editor holds before the append loop
BeforeAppend(v) ==
    new_values(v, args.lowercase, args.replace, None, None)

\* value + ' & ' + phrase for every phrase the value does not hold yet
RECURSIVE AppendWhole(_, _, _)
AppendWhole(v, append, i) ==
    IF i > Len(append) THEN v
    ELSE AppendWhole(IF Contains(v, append[i]) THEN v
                     ELSE v \o " & " \o append[i],
                     append, i + 1)

\* C12: for each append phrase, a row whose value (after strip, lowercase
\* and replace) does not contain the phrase becomes value + ' & ' + phrase,
\* and a row that contains it is left unchanged.
C12_AppendPhrase ==
    (pc = "edited" /\ args.fn = "_replace_column_values"
        /\ args.append # None /\ args.infer = None) =>
        res.frame.rows =
            BagMap(df.rows, LAMBDA r :
                [r EXCEPT !.text_col1 =
                    AppendWhole(BeforeAppend(r.text_col1), args.append, 1)])

\* the columns of the input other than the one named
OtherColumns(c) == Range(Columns(df)) \ {c}

\* the rename can be made: the source column is there and the new name is
\* not the name of another column
Renamable ==
    /\ args.old_colname \in Range(Columns(df))
    /\ args.new_colname \notin OtherColumns(args.old_colname)

\* C13: _replace_column_name raises when both a source column and an
\* override are given and when neither is given; with only a source column
\* the column is renamed and keeps every value; with only an override every
\* row of the new column holds the literal; all other columns are unchanged.
C13_ColumnNameResolver ==
    (pc = "edited" /\ args.fn = "_replace_column_name") =>
        /\ (args.old_colname # NoStr /\ args.override # NoStr) =>
              res.err # "none"
        /\ (args.old_colname = NoStr /\ args.override = NoStr) =>
              res.err = ErrExactlyOne
        /\ (args.old_colname # NoStr /\ args.override = NoStr /\ Renamable) =>
              /\ res.err = "none"
              /\ Range(Columns(res.frame))
                    = OtherColumns(args.old_colname) \cup {args.new_colname}
              /\ Height(res.frame.rows) = Height(df.rows)
              /\ \A o \in DOMAIN res.frame.rows :
                    res.frame.rows[o] =
                        CountOver(df.rows,
                            {r \in DOMAIN df.rows :
                                /\ r[args.old_colname] = o[args.new_colname]
                                /\ \A c \in OtherColumns(args.old_colname) :
                                      r[c] = o[c]})
        /\ (args.old_colname = NoStr /\ args.override # NoStr) =>
              /\ res.err = "none"
              /\ Range(Columns(res.frame))
                    = Range(Columns(df)) \cup {args.new_colname}
              /\ \A o \in DOMAIN res.frame.rows :
                    o[args.new_colname] = args.override
              /\ DropColumns(res.frame.rows, {args.new_colname})
                    = DropColumns(df.rows, {args.new_colname})

\* a rename that kept the values of a frame with distinct values
C13_Witness ==
    /\ pc = "edited"
    /\ args.fn = "_replace_column_name"
    /\ args.old_colname = "text_col1"
    /\ args.new_colname = "new_name"
    /\ args.override = NoStr
    /\ res.err = "none"
    /\ Cardinality({r.new_name : r \in DOMAIN res.frame.rows}) >= 2
    /\ Columns(res.frame) = <<"new_name", "text_col2">>

\* every phrase of the list that the donor holds, appended in turn
RECURSIVE TransferEach(_, _, _, _)
TransferEach(recip, donor, transfer, i) ==
    IF i > Len(transfer) THEN recip
    ELSE TransferEach(IF Contains(donor, transfer[i])
                      THEN recip \o transfer[i] ELSE recip,
                      donor, transfer, i + 1)

\* C14: with transfer, every phrase found in a row's donor value is
\* appended to the row's recipient value, a row whose donor holds several
\* phrases receiving an append for each of them, in the order of the list.
C14_TransferEachPhrase ==
    (pc = "edited" /\ args.fn = "_borrow_column_values"
        /\ args.donor_colname # NoStr /\ args.transfer # None) =>
        res.frame.rows =
            BagMap(df.rows, LAMBDA r :
                [r EXCEPT !.text_col1 =
                    TransferEach(r.text_col1, r.text_col2, args.transfer, 1)])

(***************************************************************************)
(* clean_time_start_end.                                                   *)
(***************************************************************************)
MonthNames ==
    <<"January", "February", "March", "April", "May", "June", "July",
      "August", "September", "October", "November", "December">>

IsLeap(y) == (y % 4 = 0 /\ y % 100 # 0) \/ y % 400 = 0

DaysInMonth(y, m) ==
    IF m = 2 THEN (IF IsLeap(y) THEN 29 ELSE 28)
    ELSE IF m \in {4, 6, 9, 11} THEN 30 ELSE 31

\* the date that is z days after 1970-01-01, the inverse of DayNumber
DateOfDay(z) ==
    LET zz == z + 719468
        era == zz \div 146097
        doe == zz - era * 146097
        yoe == (doe - doe \div 1460 + doe \div 36524 - doe \div 146096) \div 365
        doy == doe - (365 * yoe + yoe \div 4 - yoe \div 100)
        mp == (5 * doy + 2) \div 153
        d == doy - (153 * mp + 2) \div 5 + 1
        m == IF mp < 10 THEN mp + 3 ELSE mp - 9
        y == yoe + era * 400 + (IF m <= 2 THEN 1 ELSE 0)
    IN  <<y, m, d>>

\* dt.offset_by of a number of days
OffsetByDays(date, n) == DateOfDay(DayNumber(date) + n)

\* dt.offset_by("-1mo"): the same day of the month before, the last day of
\* that month if it has no such day
OffsetByMinusOneMonth(date) ==
    LET y == IF date[2] = 1 THEN date[1] - 1 ELSE date[1]
        m == IF date[2] = 1 THEN 12 ELSE date[2] - 1
    IN  <<y, m, Min(date[3], DaysInMonth(y, m))>>

\* a week that starts seven days before its end
WeekStartSeven(time_end) == OffsetByDays(time_end, 0 - 7)

\* then(pl.col("time_end").dt.offset_by("-6d"))
WeekStart(time_end) == OffsetByDays(time_end, 0 - 6)

NoDate == <<0, 0, 0>>

\* the digits at s[i..], at most n of them
DigitsEnd(s, i, n) == Min(SkipDigits(s, i), i + n)

\* str.strptime(pl.Date, time_format) from position i of s and position j of
\* the format, for the directives %Y, %m, %d and %B and literal characters;
\* a month is read by its full name
RECURSIVE StrptimeFrom(_, _, _, _, _)
StrptimeFrom(s, i, time_format, j, date) ==
    LET fail == [ok |-> FALSE, date |-> NoDate]
        directive == CharAt(time_format, j + 1)
    IN  IF j > Len(time_format)
        THEN IF i = Len(s) + 1
                  /\ date[2] \in 1..12
                  /\ date[3] \in 1..DaysInMonth(date[1], date[2])
             THEN [ok |-> TRUE, date |-> date]
             ELSE fail
        ELSE IF CharAt(time_format, j) # "%"
        THEN IF CharAt(s, i) = CharAt(time_format, j)
             THEN StrptimeFrom(s, i + 1, time_format, j + 1, date)
             ELSE fail
        ELSE IF directive = "Y"
        THEN IF AllDigits(Sub(s, i, i + 3), 4)
             THEN StrptimeFrom(s, i + 4, time_format, j + 2,
                               [date EXCEPT ![1] = DigitsValue(s, i, i + 3)])
             ELSE fail
        ELSE IF directive \in {"m", "d"}
        THEN LET k == DigitsEnd(s, i, 2)
             IN  IF k = i THEN fail
                 ELSE StrptimeFrom(s, k, time_format, j + 2,
                          [date EXCEPT ![IF directive = "m" THEN 2 ELSE 3] =
                              DigitsValue(s, i, k - 1)])
        ELSE IF directive = "B"
        THEN LET named == {m \in 1..12 :
                              Sub(s, i, i + Len(MonthNames[m]) - 1) = MonthNames[m]}
             IN  IF named = {} THEN fail
                 ELSE LET m == CHOOSE m \in named : TRUE
                      IN  StrptimeFrom(s, i + Len(MonthNames[m]), time_format,
                                       j + 2, [date EXCEPT ![2] = m])
        ELSE fail

Strptime(s, time_format) == StrptimeFrom(s, 1, time_format, 1, NoDate)

\* str.slice(0, 4)
Slice4(s) == Sub(s, 1, Min(4, Len(s)))

\* str.extract(r"^(.*?)-"): the text before the first hyphen; the values
\* extracted here hold a hyphen
BeforeHyphen(s) == Sub(s, 1, Find(s, "-") - 1)

ErrTimeType == "Time type not recognized:"

ErrParse == "strptime failed"

\* column is the list of the columns, a str argument being the list of
\* that one column; the result is the frame as collected
clean_time_start_end(frame, column, col_format, time_format) ==
    LET Year(r) == Slice4(StripChars(r[column[2]]))
        sliced == IF Len(column) > 1
                  THEN BagMap(frame.rows, LAMBDA r :
                           [r EXCEPT ![column[2]] = Year(r)])
                  ELSE frame.rows
        EndText(r) == IF Len(column) = 1 THEN r[column[1]]
                      ELSE r[column[1]] \o "-" \o r[column[2]]
        RangeText(r) ==
            IF Len(column) > 1
            THEN [time_start |-> StripChars(BeforeHyphen(r[column[1]]))
                                     \o " " \o r[column[2]],
                  time_end |-> StripChars(BeforeHyphen(r[column[1]]))
                                   \o " " \o r[column[2]]]
            ELSE [time_start |-> StripChars(BeforeHyphen(r[column[1]])),
                  time_end |-> StripChars(BeforeHyphen(r[column[1]]))]
        With(r, time_start, time_end) ==
            [c \in (DOMAIN r) \cup {"time_start", "time_end"} |->
                IF c = "time_start" THEN time_start
                ELSE IF c = "time_end" THEN time_end ELSE r[c]]
    IN  IF col_format = "end"
        THEN IF \E r \in DOMAIN sliced : ~ Strptime(EndText(r), time_format).ok
             THEN [err |-> ErrParse, frame |-> NoFrame]
             ELSE IF \E r \in DOMAIN sliced : r.time_type \notin {"week", "month"}
             THEN [err |-> ErrTimeType, frame |-> NoFrame]
             ELSE [err |-> "none",
                   frame |-> Frame(
                       WithColumnSchema(
                           WithColumnSchema(frame.schema, "time_end", "Date"),
                           "time_start", "Date"),
                       BagMap(sliced, LAMBDA r :
                           LET time_end == Strptime(EndText(r), time_format).date
                           IN  With(r,
                                    IF r.time_type = "week"
                                    THEN WeekStart(time_end)
                                    ELSE OffsetByMinusOneMonth(time_end),
                                    time_end)))]
        ELSE IF col_format = "both"
        THEN IF \E r \in DOMAIN sliced :
                    \/ ~ Strptime(RangeText(r).time_start, time_format).ok
                    \/ ~ Strptime(RangeText(r).time_end, time_format).ok
             THEN [err |-> ErrParse, frame |-> NoFrame]
             ELSE [err |-> "none",
                   frame |-> Frame(
                       WithColumnSchema(
                           WithColumnSchema(frame.schema, "time_start", "Date"),
                           "time_end", "Date"),
                       BagMap(sliced, LAMBDA r :
                           With(r,
                                Strptime(RangeText(r).time_start, time_format).date,
                                Strptime(RangeText(r).time_end, time_format).date)))]
        ELSE [err |-> ErrFormat, frame |-> NoFrame]

(***************************************************************************)
(* SpecTime: one call of clean_time_start_end on a frame that holds the    *)
(* period in each of the encodings.                                        *)
(***************************************************************************)
TimeSchema ==
    << <<"time_type", "String">>, <<"time", "String">>,
       <<"time_range", "String">>, <<"month_day", "String">>,
       <<"end_day", "String">>, <<"year", "String">> >>

TimeRow(time_type, time, time_range, month_day, end_day, year) ==
    [time_type |-> time_type, time |-> time, time_range |-> time_range,
     month_day |-> month_day, end_day |-> end_day, year |-> year]

TimeRows ==
    {TimeRow("month", "2025-08-26", "July 26 2025 - August 26 2025",
             "July 26 - August 26", "08-26", "2025"),
     TimeRow("week", "2025-08-20", "August 14 2025 - August 20 2025",
             "August 14 - August 20", "08-20", "2025"),
     TimeRow("month", "2025-03-31", "February 28 2025 - March 31 2025",
             "February 28 - March 31", "03-31", " 2025 "),
     TimeRow("week", "2025-01-03", "December 28 2024 - January 3 2025",
             "December 28 - January 3", "01-03", "2025"),
     TimeRow("day", "2025-08-26", "August 26 2025 - August 26 2025",
             "August 26 - August 26", "08-26", "2025"),
     TimeRow("month", "08/26/2025", "July 26, 2025 - August 26, 2025",
             "Jul 26 - Aug 26", "26 Aug", "2025")}

\* the calls: column, col_format, time_format
TimeArgs ==
    {[column |-> <<"time">>, col_format |-> "end", time_format |-> "%Y-%m-%d"],
     [column |-> <<"end_day", "year">>, col_format |-> "end",
      time_format |-> "%m-%d-%Y"],
     [column |-> <<"time_range">>, col_format |-> "both",
      time_format |-> "%B %d %Y"],
     [column |-> <<"month_day", "year">>, col_format |-> "both",
      time_format |-> "%B %d %Y"],
     [column |-> <<"time">>, col_format |-> "start",
      time_format |-> "%Y-%m-%d"],
     [column |-> <<"time_range">>, col_format |-> "range",
      time_format |-> "%B %d %Y"]}

InitTime ==
    /\ pc = "time"
    /\ \E B \in BagsOf(TimeRows) : df = Frame(TimeSchema, B)
    /\ args \in TimeArgs
    /\ res = NoResult
    /\ res2 = NoResult
    /\ problems = <<>>
    /\ printed = <<>>
    /\ cache = NoCache
    /\ requests = <<>>

CleanTimeStartEnd ==
    /\ pc = "time"
    /\ res' = clean_time_start_end(df, args.column, args.col_format,
                                   args.time_format)
    /\ pc' = "timed"
    /\ UNCHANGED <<df, args, res2, problems, printed, cache, requests>>

NextTime == CleanTimeStartEnd

SpecTime == InitTime /\ [][NextTime]_vars

\* the text after the first hyphen
AfterHyphen(s) == Sub(s, Find(s, "-") + 1, Len(s))

\* the text of one side of the range of a row, the year of the second
\* column added when there is one
RangeSide(r, side) ==
    IF Len(args.column) > 1
    THEN StripChars(side) \o " " \o r[args.column[2]]
    ELSE StripChars(side)

\* C15: with col_format 'both', time_start is parsed from the part of the
\* range before the separating hyphen and time_end from the part after it,
\* with the range in one column and with the year in a second column.
C15_BothSplitsRange ==
    (pc = "timed" /\ args.col_format = "both" /\ res.err = "none") =>
        \A r \in DOMAIN res.frame.rows :
            /\ r.time_start =
                  Strptime(RangeSide(r, BeforeHyphen(r[args.column[1]])),
                           args.time_format).date
            /\ r.time_end =
                  Strptime(RangeSide(r, AfterHyphen(r[args.column[1]])),
                           args.time_format).date

\* C16: clean_time_start_end raises whenever some row's time_type is outside
\* {week, month}, in every source encoding, and raises for a col_format
\* that is neither 'end' nor 'both'.
C16_TimeTypeRaises ==
    pc = "timed" =>
        /\ (\E r \in DOMAIN df.rows : r.time_type \notin {"week", "month"}) =>
              res.err # "none"
        /\ args.col_format \notin {"end", "both"} => res.err = ErrFormat

\* C17: with col_format 'end', time_end is the parsed date, time_start is
\* time_end minus 6 days for a week and time_end minus one calendar month
\* for a month, and time_start <= time_end on every row.
C17_EndInfersStart ==
    (pc = "timed" /\ args.col_format = "end" /\ res.err = "none") =>
        \A r \in DOMAIN res.frame.rows :
            /\ r.time_end =
                  Strptime(IF Len(args.column) = 1 THEN r[args.column[1]]
                           ELSE r[args.column[1]] \o "-" \o r[args.column[2]],
                           args.time_format).date
            /\ r.time_type = "week" =>
                  DayNumber(r.time_end) - DayNumber(r.time_start) = 6
            /\ r.time_type = "month" =>
                  /\ r.time_start[2] = ((r.time_end[2] + 10) % 12) + 1
                  /\ r.time_start[1] =
                        (IF r.time_end[2] = 1 THEN r.time_end[1] - 1
                         ELSE r.time_end[1])
                  /\ r.time_start[3] =
                        Min(r.time_end[3],
                            DaysInMonth(r.time_start[1], r.time_start[2]))
            /\ DayNumber(r.time_start) <= DayNumber(r.time_end)

\* a week that ends in January and starts in December of the year before,
\* and a month whose start is brought back to the last day of February
C17_Witness ==
    /\ pc = "timed"
    /\ args.col_format = "end"
    /\ res.err = "none"
    /\ \E r \in DOMAIN res.frame.rows :
          /\ r.time_type = "week"
          /\ r.time_end = <<2025, 1, 3>>
          /\ r.time_start = <<2024, 12, 28>>
    /\ \E r \in DOMAIN res.frame.rows :
          /\ r.time_type = "month"
          /\ r.time_end = <<2025, 3, 31>>
          /\ r.time_start = <<2025, 2, 28>>

(***************************************************************************)
(* clean_geography.                                                        *)
(***************************************************************************)
IsAlphanumeric(ch) ==
    \/ ch \in Digits
    \/ \E k \in 1..26 : CharAt(UpperCase, k) = ch \/ CharAt(LowerCase, k) = ch

\* str.to_titlecase() from position i on: the first letter of a word in
\* upper case, its other letters in lower case
RECURSIVE TitlecaseFrom(_, _)
TitlecaseFrom(s, i) ==
    IF i > Len(s) THEN ""
    ELSE (IF i = 1 \/ ~ IsAlphanumeric(CharAt(s, i - 1))
          THEN UpperChar(CharAt(s, i)) ELSE LowerChar(CharAt(s, i)))
         \o TitlecaseFrom(s, i + 1)

to_titlecase(s) == TitlecaseFrom(s, 1)

\* str.extract(r"^(.*?):") of a value that holds a colon
BeforeColon(s) == Sub(s, 1, Find(s, ":") - 1)

\* the geography expression of the with_columns
geography_expr(geography_type, geography) ==
    IF geography_type = "region" /\ Contains(geography, ":")
    THEN to_titlecase(BeforeColon(geography))
    ELSE geography

\* a geography_type expression that leaves an admin1 row as it is
RetypeKeepsAdmin1(geography_type, geography) ==
    IF geography_type = "region" /\ geography = "nation" THEN "nation"
    ELSE geography_type

\* the geography_type expression of the with_columns
geography_type_expr(geography_type, geography) ==
    IF geography_type = "admin1" /\ geography \notin admin1_values
    THEN "substate"
    ELSE IF geography_type = "region" /\ geography = "nation" THEN "nation"
    ELSE geography_type

\* the three editors in turn, the first error ending the pipe
EditColumn(frame, name, colname, override, lowercase, replace, append, infer, donor_colname, transfer) ==
    LET named == _replace_column_name(frame, name, colname, override)
    IN  IF named.err # "none" THEN named
        ELSE _borrow_column_values(
                 _replace_column_values(named.frame, name, lowercase, replace,
                                        append, infer).frame,
                 name, donor_colname, transfer)

\* both expressions of the with_columns read the frame as the editors left it
clean_geography(frame, colname, override, lowercase, replace, append, infer, donor_colname, transfer) ==
    LET edited == EditColumn(frame, "geography", colname, override, lowercase,
                             IF replace = None
                             THEN << <<"National", "nation">> >> ELSE replace,
                             append, infer, donor_colname, transfer)
    IN  IF edited.err # "none" THEN edited
        ELSE [err |-> "none",
              frame |-> Frame(edited.frame.schema,
                  BagMap(edited.frame.rows, LAMBDA r :
                      [r EXCEPT
                          !.geography =
                              geography_expr(r.geography_type, r.geography),
                          !.geography_type =
                              geography_type_expr(r.geography_type,
                                                  r.geography)]))]

(***************************************************************************)
(* SpecGeo: one call of clean_geography on a frame whose geography_type    *)
(* is clean and whose geography is the raw column.                         *)
(***************************************************************************)
GeoSchema == << <<"geography_type", "String">>, <<"geo", "String">> >>

GeoRow(geography_type, geo) == [geography_type |-> geography_type, geo |-> geo]

GeoRows ==
    {GeoRow("admin1", "Texas"), GeoRow("admin1", "Bexar County"),
     GeoRow("admin1", " Ohio "), GeoRow("region", "National"),
     GeoRow("region", "Region 1: Boston"), GeoRow("region", "Region 2"),
     GeoRow("nation", "National"), GeoRow("substate", "Bexar County"),
     GeoRow("local", "Chicago"), GeoRow("county", "48029")}

NoGeoArgs ==
    [colname |-> "geo", override |-> NoStr, lowercase |-> FALSE,
     replace |-> None, append |-> None, infer |-> None,
     donor_colname |-> NoStr, transfer |-> None]

GeoArgs ==
    {NoGeoArgs,
     [NoGeoArgs EXCEPT !.lowercase = TRUE],
     [NoGeoArgs EXCEPT !.colname = NoStr, !.override = "nation"],
     [NoGeoArgs EXCEPT !.replace = << <<"National", "nation">>,
                                      <<"Bexar County", "Texas">> >>],
     [NoGeoArgs EXCEPT !.override = "nation"]}

InitGeo ==
    /\ pc = "clean_geography"
    /\ \E B \in BagsOf(GeoRows) : df = Frame(GeoSchema, B)
    /\ args \in GeoArgs
    /\ res = NoResult
    /\ res2 = NoResult
    /\ problems = <<>>
    /\ printed = <<>>
    /\ cache = NoCache
    /\ requests = <<>>

CleanGeography ==
    /\ pc = "clean_geography"
    /\ res' = clean_geography(df, args.colname, args.override, args.lowercase,
                              args.replace, args.append, args.infer,
                              args.donor_colname, args.transfer)
    /\ pc' = "cleaned_geography"
    /\ UNCHANGED <<df, args, res2, problems, printed, cache, requests>>

NextGeo == CleanGeography

SpecGeo == InitGeo /\ [][NextGeo]_vars

\* the geography the editors make of a raw value
EditedGeography(v) ==
    IF args.override # NoStr THEN args.override
    ELSE new_values(v, args.lowercase,
                    IF args.replace = None
                    THEN << <<"National", "nation">> >> ELSE args.replace,
                    args.append, args.infer)

\* the geography_type a row is to leave with
ExpectedType(r) ==
    IF r.geography_type = "admin1" /\ EditedGeography(r.geo) \notin admin1_values
    THEN "substate"
    ELSE IF r.geography_type = "region" /\ EditedGeography(r.geo) = "nation"
    THEN "nation"
    ELSE r.geography_type

\* C18: after clean_geography no row is admin1 with a geography outside the
\* state and territory list (such rows are re-typed to substate, none is
\* dropped) and no row is region with geography 'nation' (such rows are
\* re-typed to nation); every other row keeps its geography_type.
C18_GeographyRetyped ==
    (pc = "cleaned_geography" /\ res.err = "none") =>
        /\ \A o \in DOMAIN res.frame.rows :
              /\ ~ (o.geography_type = "admin1"
                      /\ o.geography \notin admin1_values)
              /\ ~ (o.geography_type = "region" /\ o.geography = "nation")
        /\ Height(res.frame.rows) = Height(df.rows)
        /\ \A t \in {"nation", "region", "admin1", "substate", "county", "local"} :
              CountOver(res.frame.rows,
                        {o \in DOMAIN res.frame.rows : o.geography_type = t})
                  = CountOver(df.rows,
                              {r \in DOMAIN df.rows : ExpectedType(r) = t})

\* an admin1 row outside the list left as substate, a region row of the
\* nation left as nation, and an admin1 row of the list left as admin1
C18_Witness ==
    /\ pc = "cleaned_geography"
    /\ res.err = "none"
    /\ args = NoGeoArgs
    /\ GeoRow("admin1", "Bexar County") \in DOMAIN df.rows
    /\ GeoRow("region", "National") \in DOMAIN df.rows
    /\ GeoRow("admin1", "Texas") \in DOMAIN df.rows
    /\ \E o \in DOMAIN res.frame.rows :
          o.geography_type = "substate" /\ o.geography = "Bexar County"
    /\ \E o \in DOMAIN res.frame.rows :
          o.geography_type = "nation" /\ o.geography = "nation"
    /\ \E o \in DOMAIN res.frame.rows :
          o.geography_type = "admin1" /\ o.geography = "Texas"

(***************************************************************************)
(* SpecValidateGeo: Validate is constructed on frames whose rows differ    *)
(* in geography_type and geography only.                                   *)
(***************************************************************************)
GeographyRow(geography_type, geography) ==
    [GoodRow EXCEPT !.geography_type = geography_type, !.geography = geography]

\* rows with a geography that suits the geography_type
GoodGeographyRows ==
    {GeographyRow("admin1", "Texas"), GeographyRow("nation", "nation"),
     GeographyRow("region", "Region 1"), GeographyRow("region", "Region 10"),
     GeographyRow("county", "48029"), GeographyRow("substate", "Bexar County"),
     GeographyRow("local", "Chicago")}

\* rows with a geography that does not, and a row of an unknown type
BadGeographyRows ==
    {GeographyRow("nation", "Texas"), GeographyRow("region", "Region"),
     GeographyRow("region", "Region 1a"), GeographyRow("region", "region 1"),
     GeographyRow("admin1", "Bexar County"), GeographyRow("county", "4802"),
     GeographyRow("county", "480291"), GeographyRow("county", "Bexar"),
     GeographyRow("state", "Texas")}

InitValidateGeo ==
    /\ pc = "validate"
    /\ \E B \in BagsOf(GoodGeographyRows \cup BadGeographyRows) :
          df = Frame(data_schema, B)
    /\ args \in {[id |-> "test_df", mode |-> m] : m \in {"warn", "error"}}
    /\ res = NoResult
    /\ res2 = NoResult
    /\ problems = <<>>
    /\ printed = <<>>
    /\ cache = NoCache
    /\ requests = <<>>

SpecValidateGeo == InitValidateGeo /\ [][NextValidate]_vars

\* the values named by the problems of one kind
ProblemValues(kind) ==
    UNION {problems[i][2] : i \in {k \in 1..Len(problems) : problems[k][1] = kind}}

\* the geography_type values named by the problem about that column
ProblemTypes ==
    UNION {problems[i][3] :
              i \in {k \in 1..Len(problems) :
                        /\ problems[k][1] = "Bad values in"
                        /\ problems[k][2] = "geography_type"}}

\* the geographies of the rows of df of one type that are among the bad rows
BadOfType(geography_type) ==
    {r.geography : r \in {x \in (DOMAIN df.rows) \cap BadGeographyRows :
                            x.geography_type = geography_type}}

\* C19: Validate reports every nation row whose geography is not 'nation',
\* every region row that is not 'Region <digits>', every admin1 row outside
\* the state and territory list, every county row that is not a 5-digit
\* code and every geography_type outside the six known ones, and reports
\* no geography problem for a row such as admin1/'Texas'.
C19_GeographyRules ==
    pc = "validated" =>
        /\ ProblemValues("Bad nation values") = BadOfType("nation")
        /\ ProblemValues("Bad region values") = BadOfType("region")
        /\ ProblemValues("Bad admin1 values") = BadOfType("admin1")
        /\ ProblemValues("Bad county values") = BadOfType("county")
        /\ ProblemTypes =
              {r.geography_type : r \in DOMAIN df.rows}
                  \ {"nation", "region", "admin1", "substate", "county", "local"}
        /\ (DOMAIN df.rows) \subseteq GoodGeographyRows =>
              \A i \in 1..Len(problems) :
                  problems[i][1] \notin
                      {"Bad values in", "Bad nation values", "Bad region values",
                       "Bad admin1 values", "Bad county values"}

\* a bad nation row, a bad county row and admin1/'Texas' in one frame: the
\* two bad values are reported, Texas is not
C19_Witness ==
    /\ pc = "validated"
    /\ GeographyRow("nation", "Texas") \in DOMAIN df.rows
    /\ GeographyRow("county", "4802") \in DOMAIN df.rows
    /\ GeographyRow("admin1", "Texas") \in DOMAIN df.rows
    /\ ProblemValues("Bad nation values") = {"Texas"}
    /\ ProblemValues("Bad county values") = {"4802"}
    /\ ProblemValues("Bad admin1 values") = {}

(***************************************************************************)
(* SpecValidateAge: Validate is constructed on frames whose rows differ in *)
(* domain_type and domain only.                                            *)
(***************************************************************************)
DomainRow(domain_type, domain) ==
    [GoodRow EXCEPT !.domain_type = domain_type, !.domain = domain]

\* an age group of each of the shapes 'N-M years', 'N-M months', 'N+ years',
\* 'N+ months' and 'N months-M years'
FourShapes ==
    {"18-49 years", "6-23 months", "65+ years", "6+ months", "6 months-17 years"}

HighRisk == {"18-49 years (high risk)"}

\* other values; no string here can hold an en dash, and '18~49 years'
\* stands for a value with another character in the place of the hyphen
OtherAgeGroups ==
    {"18~49 years", "18-49", "18 - 49 years", "18-49 year", "18+",
     "6 years-17 months", "6-23 months (high risk)", "adults"}

AgeRows ==
    {DomainRow("age", x) : x \in FourShapes \cup HighRisk \cup OtherAgeGroups}
    \cup {DomainRow("race", "hispanic")}

InitValidateAge ==
    /\ pc = "validate"
    /\ \E B \in BagsOf(AgeRows) : df = Frame(data_schema, B)
    /\ args \in {[id |-> "test_df", mode |-> m] : m \in {"warn", "error"}}
    /\ res = NoResult
    /\ res2 = NoResult
    /\ problems = <<>>
    /\ printed = <<>>
    /\ cache = NoCache
    /\ requests = <<>>

SpecValidateAge == InitValidateAge /\ [][NextValidate]_vars

\* the domain values of the rows of df whose domain_type is age
AgeGroups == {r.domain : r \in {x \in DOMAIN df.rows : x.domain_type = "age"}}

\* C20 as stated: a domain value under domain_type 'age' is reported as
\* invalid unless it has one of the four shapes 'N-M years', 'N-M months',
\* 'N+ years' or 'N+ months', 'N months-M years'.
C20_FourShapesOnly ==
    pc = "validated" =>
        ProblemValues("Invalid age groups") = AgeGroups \ FourShapes

\* C20: a domain value under domain_type 'age' is reported as invalid unless
\* it has one of the shapes 'N-M years', 'N-M months', 'N+ years' or
\* 'N+ months', 'N months-M years' or 'N-M years (high risk)'; values with
\* another character for the hyphen, without a unit or with spaces around
\* the hyphen are reported.
C20_AgeGroupGrammar ==
    pc = "validated" =>
        ProblemValues("Invalid age groups")
            = AgeGroups \ (FourShapes \cup HighRisk)

\* a frame with an accepted value, the high risk value and a value without
\* a unit: only the last is reported
C20_Witness ==
    /\ pc = "validated"
    /\ {"18-49 years", "18-49 years (high risk)", "18-49"} \subseteq AgeGroups
    /\ ProblemValues("Invalid age groups") = {"18-49"}

(***************************************************************************)
(* SpecValidateText: Validate is constructed on frames whose rows differ   *)
(* in the text of domain and indicator only.                               *)
(***************************************************************************)
\* a row of BASE_DF
TextBaseRow ==
    [GoodRow EXCEPT !.geography_type = "nation", !.geography = "nation",
                    !.domain_type = "all", !.domain = "all",
                    !.indicator_type = "vaccination",
                    !.indicator = "received a vaccination"]

\* the strings of test_has_excess_whitespace, test_has_excess_whitespace_df
\* and test_has_bad_capitalization
TextValues ==
    {"received a vaccination", "received  a  vaccination",
     "non-space\twhitespace", " starting whitespace", "trailing whitespace ",
     "I got a vaccine", "COVID-19", "no problems here"}

TextValuedRows ==
    {[TextBaseRow EXCEPT !.indicator = x] : x \in TextValues}
    \cup {[TextBaseRow EXCEPT !.domain = x] : x \in TextValues}

\* frames of at most MaxRows different rows
SetsOf(R) == {[r \in S |-> 1] : S \in {T \in SUBSET R : Cardinality(T) <= MaxRows}}

InitValidateText ==
    /\ pc = "validate"
    /\ \E B \in SetsOf(TextValuedRows) : df = Frame(data_schema, B)
    /\ args \in {[id |-> "test_df", mode |-> m] : m \in {"warn", "error"}}
    /\ res = NoResult
    /\ res2 = NoResult
    /\ problems = <<>>
    /\ printed = <<>>
    /\ cache = NoCache
    /\ requests = <<>>

SpecValidateText == InitValidateText /\ [][NextValidate]_vars

\* the string has a capital letter
HasCapital(x) == \E i \in 1..Len(x) : Contains(UpperCase, CharAt(x, i))

\* C21: a validation run reports the values of the categorical text columns
\* that contain a capital letter ('I got a vaccine', 'COVID-19') as
\* problems, and reports no such problem for an all-lowercase value.
C21_CapitalizationReported ==
    pc = "validated" =>
        \A column \in WhitespaceColumns :
            \A x \in ColumnValues(df.rows, column) :
                HasCapital(x) <=>
                    \E i \in 1..Len(problems) :
                        /\ Len(problems[i]) = 3
                        /\ problems[i][2] = column
                        /\ problems[i][3] = x
                        /\ problems[i][1] # "Bad whitespace in column"

\* " ".join(x.split()): the words of x joined by single spaces
RECURSIVE SplitJoin(_, _, _)
SplitJoin(x, i, out) ==
    IF i > Len(x) THEN out
    ELSE IF CharAt(x, i) \in Whitespace THEN SplitJoin(x, i + 1, out)
    ELSE LET sep == IF out # "" /\ CharAt(x, i - 1) \in Whitespace
                    THEN " " ELSE ""
         IN  SplitJoin(x, i + 1, out \o sep \o CharAt(x, i))

\* the values of a column that the whitespace problems name
WhitespaceProblemValues(column) ==
    {problems[i][3] :
        i \in {k \in 1..Len(problems) :
                  /\ problems[k][1] = "Bad whitespace in column"
                  /\ problems[k][2] = column}}

\* the pairs of a checked column and a value of it that is not its own
\* words joined by single spaces
ExcessWhitespace ==
    {cx \in WhitespaceColumns \X TextValues :
        /\ cx[2] \in ColumnValues(df.rows, cx[1])
        /\ SplitJoin(cx[2], 1, "") # cx[2]}

\* C22: a value of domain_type, domain, indicator_type or indicator is
\* reported exactly when it holds a whitespace character other than a
\* space, two or more whitespace characters in a row, or whitespace at its
\* start or end; a frame whose only defects are such values has one problem
\* for each of them, so one for 'received  a  vaccination' and none for
\* 'received a vaccination'.
C22_WhitespaceRule ==
    pc = "validated" =>
        /\ \A column \in WhitespaceColumns :
              WhitespaceProblemValues(column)
                  = {cx[2] : cx \in {p \in ExcessWhitespace : p[1] = column}}
        /\ Len(problems) = Cardinality(ExcessWhitespace)
        /\ \A i \in 1..Len(problems) :
              problems[i][1] = "Bad whitespace in column"

\* the frame of test_has_excess_whitespace_df next to a clean row: one
\* problem, about the doubled spaces
C22_Witness ==
    /\ pc = "validated"
    /\ ColumnValues(df.rows, "indicator")
          = {"received  a  vaccination", "received a vaccination"}
    /\ ColumnValues(df.rows, "domain") = {"all"}
    /\ problems = << <<"Bad whitespace in column", "indicator",
                       "received  a  vaccination">> >>

(***************************************************************************)
(* SpecMetric: clean_estimate and then clean_lci_uci are called on frames  *)
(* of the shape of mock_df, as the tests of the metric cleaners call them. *)
(* drop_bad_rows has dropped the rows with a null before.                  *)
(***************************************************************************)
MockSchema ==
    << <<"text_col2", "String">>, <<"estimate", "String">>,
       <<"_ci_95", "String">>, <<"ci", "String">> >>

MockRow(text, e, half, full) ==
    [c \in Range(SchemaNames(MockSchema)) |->
        IF c = "text_col2" THEN text
        ELSE IF c = "estimate" THEN e
        ELSE IF c = "_ci_95" THEN half
        ELSE full]

\* rows of mock_df, and rows whose estimate or interval leaves 0..100 or
\* whose half-width is below 0
MockRows ==
    {MockRow("PA", "1.0", "0.1", "0.0 to 100.2"),
     MockRow("US", "10.0", "10.2", "0.0 to 100.2"),
     MockRow("18- 45", "6.0", "0.6", "0.0 to 100.2"),
     MockRow(" 18 - 45", "six", "0.6", "0.0 to 100.2"),
     MockRow("PA", "50.0", "10.0", "40.0 to 60.0"),
     MockRow("US", "95.0", "-10.0", "85.0 to 99.9"),
     MockRow("PA", "120.0", "150.0", "0.0 to 60.0"),
     MockRow("US", "-5.0", "-5.0", "0.0 to 60.0"),
     MockRow("18+", "N/A", "1.0", "0.0 to 60.0"),
     MockRow("18+", "2.0", "150.0", "1.0to3.0")}

mock_args(col_format) ==
    [clean_estimate |-> [column |-> "estimate"],
     clean_lci_uci |-> [column |-> IF col_format = "half" THEN "_ci_95" ELSE "ci",
                        col_format |-> col_format, separator |-> "to"]]

InitMetric ==
    /\ pc = "clean_estimate"
    /\ \E B \in BagsOf(MockRows), col_format \in {"half", "full"} :
          /\ df = Frame(MockSchema, B)
          /\ args = [id |-> "mock_df", clean_args |-> mock_args(col_format)]
    /\ res = NoResult
    /\ res2 = NoResult
    /\ problems = <<>>
    /\ printed = <<>>
    /\ cache = NoCache
    /\ requests = <<>>

NextMetric ==
    \/ CleanEstimate
    \/ CleanLciUci

SpecMetric == InitMetric /\ [][NextMetric]_vars

\* the proportion each numeric estimate of MockRows stands for
Proportion ==
    [e \in {"1.0", "10.0", "6.0", "50.0", "95.0", "120.0", "-5.0", "2.0"} |->
        IF e = "1.0" THEN PerMille(10)
        ELSE IF e = "10.0" THEN PerMille(100)
        ELSE IF e = "6.0" THEN PerMille(60)
        ELSE IF e = "50.0" THEN PerMille(500)
        ELSE IF e = "95.0" THEN PerMille(950)
        ELSE IF e = "120.0" THEN PerMille(1000)
        ELSE IF e = "-5.0" THEN 0
        ELSE PerMille(20)]

\* the rows of df whose estimate holds a letter
LetterRows == {r \in DOMAIN df.rows : r.estimate \notin DOMAIN Proportion}

\* C23: clean_estimate drops exactly the rows whose estimate string holds a
\* letter, printing them without raising, gives every other row the number
\* divided by 100 and clamped to [0, 1] as its estimate, and leaves the
\* other columns of those rows as they were.
C23_CleanEstimate ==
    pc = "clean_lci_uci" =>
        /\ res.err = "none"
        /\ Height(res.frame.rows)
              = CountOver(df.rows, (DOMAIN df.rows) \ LetterRows)
        /\ \A r \in (DOMAIN df.rows) \ LetterRows :
              /\ [r EXCEPT !.estimate = Proportion[r.estimate]]
                    \in DOMAIN res.frame.rows
              /\ res.frame.rows[[r EXCEPT !.estimate = Proportion[r.estimate]]]
                    = df.rows[r]
        /\ SchemaNames(res.frame.schema) = SchemaNames(df.schema)
        /\ IF LetterRows = {} THEN printed = <<>>
           ELSE /\ Len(printed) = 1
                /\ DOMAIN printed[1] = LetterRows
                /\ \A r \in LetterRows : printed[1][r] = df.rows[r]

\* the rows 'six' and '120.0' in one frame: the first is dropped and shown,
\* the second stays with estimate 1
C23_Witness ==
    /\ pc = "clean_lci_uci"
    /\ MockRow(" 18 - 45", "six", "0.6", "0.0 to 100.2") \in DOMAIN df.rows
    /\ MockRow("PA", "120.0", "150.0", "0.0 to 60.0") \in DOMAIN df.rows
    /\ DOMAIN res.frame.rows
          = {[c \in DOMAIN MockRow("PA", "120.0", "150.0", "0.0 to 60.0") |->
                IF c = "estimate" THEN PerMille(1000)
                ELSE MockRow("PA", "120.0", "150.0", "0.0 to 60.0")[c]]}
    /\ Len(printed) = 1

\* the proportion each half-width of MockRows stands for
HalfWidth ==
    [h \in {"0.1", "10.2", "0.6", "10.0", "-10.0", "1.0", "-5.0", "150.0"} |->
        IF h = "0.1" THEN PerMille(1)
        ELSE IF h = "10.2" THEN PerMille(102)
        ELSE IF h = "0.6" THEN PerMille(6)
        ELSE IF h = "10.0" THEN PerMille(100)
        ELSE IF h = "-10.0" THEN 0 - PerMille(100)
        ELSE IF h = "1.0" THEN PerMille(10)
        ELSE IF h = "-5.0" THEN 0 - PerMille(50)
        ELSE PerMille(1500)]

\* the two ends of each full range of MockRows, as proportions
FullEnds ==
    [ci \in {"0.0 to 100.2", "40.0 to 60.0", "85.0 to 99.9", "0.0 to 60.0", "1.0to3.0"} |->
        IF ci = "0.0 to 100.2" THEN <<0, PerMille(1002)>>
        ELSE IF ci = "40.0 to 60.0" THEN <<PerMille(400), PerMille(600)>>
        ELSE IF ci = "85.0 to 99.9" THEN <<PerMille(850), PerMille(999)>>
        ELSE IF ci = "0.0 to 60.0" THEN <<0, PerMille(600)>>
        ELSE <<PerMille(10), PerMille(30)>>]

\* clean_lci_uci has returned a frame for the given encoding
LciUciDone(col_format) ==
    /\ pc = "clean_sample_size"
    /\ args.clean_args.clean_lci_uci.col_format = col_format

\* the row clean_estimate and then clean_lci_uci are to make of a row of df,
\* given the lci and the uci it is to have
MetricRow(r, column, lci, uci) ==
    [c \in ((DOMAIN r) \ {column}) \cup {"lci", "uci"} |->
        IF c = "lci" THEN lci
        ELSE IF c = "uci" THEN uci
        ELSE IF c = "estimate" THEN Proportion[r.estimate]
        ELSE r[c]]

\* C24: in the full-range encoding clean_lci_uci splits the string at the
\* separator, divides each half by 100 and gives an lci and a uci within
\* [0, 1]: '0.0 to 100.2' gives lci 0 and uci 1.
C24_FullRangeWithinUnit ==
    LciUciDone("full") =>
        /\ \A r \in (DOMAIN df.rows) \ LetterRows :
              MetricRow(r, "ci", Clip(FullEnds[r.ci][1], 0, PerMille(1000)),
                        Clip(FullEnds[r.ci][2], 0, PerMille(1000)))
                  \in DOMAIN res.frame.rows
        /\ \A o \in DOMAIN res.frame.rows :
              /\ 0 <= o.lci /\ o.lci <= PerMille(1000)
              /\ 0 <= o.uci /\ o.uci <= PerMille(1000)

\* C25: in the half-width encoding clean_lci_uci gives every row
\* lci = estimate - h/100 and uci = estimate + h/100, both clamped to
\* [0, 1], whatever the half-width h: estimate 0.1 with h 10.2 gives lci 0
\* and uci 0.202.
C25_HalfWidthClamped ==
    LciUciDone("half") =>
        /\ \A r \in (DOMAIN df.rows) \ LetterRows :
              MetricRow(r, "_ci_95",
                        Clip(Proportion[r.estimate] - HalfWidth[r["_ci_95"]],
                             0, PerMille(1000)),
                        Clip(Proportion[r.estimate] + HalfWidth[r["_ci_95"]],
                             0, PerMille(1000)))
                  \in DOMAIN res.frame.rows
        /\ \A o \in DOMAIN res.frame.rows :
              /\ 0 <= o.lci /\ o.lci <= PerMille(1000)
              /\ 0 <= o.uci /\ o.uci <= PerMille(1000)

(***************************************************************************)
(* cache_dataset.  cache.file is what the file at cache_path holds,        *)
(* cache.dir is what is at cache_path.parent (a directory, a regular file  *)
(* or nothing) and cache.root tells whether the parent of that directory   *)
(* exists.  get_fun is what the call of get_fun would give: a dataset, or  *)
(* the error it raises.                                                    *)
(***************************************************************************)
\* the largest number of calls of cache_dataset in a row
MaxCalls == 2

ErrAssertion == "AssertionError"

ErrExists == "Cached file exists; use force=True to overwrite"

ErrFileNotFound == "FileNotFoundError"

\* a cache_dataset whose skip branch goes on to fetch and write
CacheDatasetSkipFetches(fs, id, overwrite, get_fun) ==
    LET exists == fs.file # Absent
        warned == IF exists /\ overwrite = "warn" THEN << <<"UserWarning", ErrExists>> >>
                  ELSE <<>>
        made == IF fs.dir = Absent THEN [fs EXCEPT !.dir = "dir"] ELSE fs
    IN  IF overwrite \notin {"error", "warn", "skip", "yes"}
        THEN [err |-> ErrAssertion, cache |-> fs, warned |-> <<>>, fetched |-> <<>>]
        ELSE IF exists /\ overwrite = "error"
        THEN [err |-> ErrExists, cache |-> fs, warned |-> <<>>, fetched |-> <<>>]
        ELSE IF fs.dir = "file"
        THEN [err |-> ErrAssertion, cache |-> fs, warned |-> warned, fetched |-> <<>>]
        ELSE IF fs.dir = Absent /\ ~ fs.root
        THEN [err |-> ErrFileNotFound, cache |-> fs, warned |-> warned, fetched |-> <<>>]
        ELSE IF get_fun.err # "none"
        THEN [err |-> get_fun.err, cache |-> made, warned |-> warned,
              fetched |-> << <<"get_fun", id>> >>]
        ELSE [err |-> "none", cache |-> [made EXCEPT !.file = get_fun.data],
              warned |-> warned, fetched |-> << <<"get_fun", id>> >>]

\* cache_dataset(id, overwrite, cache_path, get_fun) with a cache_path: the
\* error raised, the files afterwards, the warnings and the calls of get_fun
cache_dataset(fs, id, overwrite, get_fun) ==
    LET exists == fs.file # Absent
        warned == IF exists /\ overwrite = "warn" THEN << <<"UserWarning", ErrExists>> >>
                  ELSE <<>>
        made == IF fs.dir = Absent THEN [fs EXCEPT !.dir = "dir"] ELSE fs
    IN  IF overwrite \notin {"error", "warn", "skip", "yes"}
        THEN [err |-> ErrAssertion, cache |-> fs, warned |-> <<>>, fetched |-> <<>>]
        ELSE IF exists /\ overwrite = "error"
        THEN [err |-> ErrExists, cache |-> fs, warned |-> <<>>, fetched |-> <<>>]
        ELSE IF exists /\ overwrite = "skip"
        THEN [err |-> "none", cache |-> fs, warned |-> <<>>, fetched |-> <<>>]
        ELSE IF fs.dir = "file"
        THEN [err |-> ErrAssertion, cache |-> fs, warned |-> warned, fetched |-> <<>>]
        ELSE IF fs.dir = Absent /\ ~ fs.root
        THEN [err |-> ErrFileNotFound, cache |-> fs, warned |-> warned, fetched |-> <<>>]
        ELSE IF get_fun.err # "none"
        THEN [err |-> get_fun.err, cache |-> made, warned |-> warned,
              fetched |-> << <<"get_fun", id>> >>]
        ELSE [err |-> "none", cache |-> [made EXCEPT !.file = get_fun.data],
              warned |-> warned, fetched |-> << <<"get_fun", id>> >>]

(***************************************************************************)
(* SpecCache: cache_dataset is called up to MaxCalls times in a row on a   *)
(* cache path, as the tests of the cache call it.                          *)
(***************************************************************************)
\* what can be at the cache path before the first call
CacheStates ==
    {[file |-> Absent, dir |-> Absent, root |-> FALSE],
     [file |-> Absent, dir |-> Absent, root |-> TRUE],
     [file |-> Absent, dir |-> "file", root |-> TRUE],
     [file |-> Absent, dir |-> "dir", root |-> TRUE],
     [file |-> "fake data", dir |-> "dir", root |-> TRUE],
     [file |-> "old.parquet", dir |-> "dir", root |-> TRUE]}

\* a get_fun that reads tests/data/test.parquet, one that gives another
\* dataset and one that raises
GetFuns ==
    {[err |-> "none", data |-> "test.parquet"],
     [err |-> "none", data |-> "other.parquet"],
     [err |-> "No cleaning set up for dataset", data |-> ""]}

OverwriteValues == {"error", "warn", "skip", "yes", "no"}

InitCache ==
    /\ pc = "cache"
    /\ df = NoFrame
    /\ args = [id |-> "BOGUS", overwrite |-> "warn",
               get_fun |-> [err |-> "not called", data |-> ""]]
    /\ res = [err |-> "not called", calls |-> 0]
    /\ res2 = NoResult
    /\ problems = <<>>
    /\ printed = <<>>
    /\ cache \in CacheStates
    /\ requests = <<>>

CacheDataset ==
    /\ pc = "cache"
    /\ res.calls < MaxCalls
    /\ \E overwrite \in OverwriteValues, get_fun \in GetFuns :
          LET call == cache_dataset(cache, "BOGUS", overwrite, get_fun)
          IN  /\ args' = [id |-> "BOGUS", overwrite |-> overwrite, get_fun |-> get_fun]
              /\ res' = [err |-> call.err, calls |-> res.calls + 1]
              /\ cache' = call.cache
              /\ printed' = printed \o call.warned
              /\ requests' = requests \o call.fetched
    /\ UNCHANGED <<pc, df, res2, problems>>

NextCache == CacheDataset

SpecCache == InitCache /\ [][NextCache]_vars

\* C26: when the cache file exists, cache_dataset with overwrite 'skip'
\* returns without calling get_fun and with the file as it was, and with
\* overwrite 'error' it raises a RuntimeError whose message holds 'exists'
\* and leaves the file as it was.
C26_SkipAndError ==
    [][(pc = "cache" /\ cache.file # Absent) =>
          /\ args'.overwrite = "skip" =>
                /\ res'.err = "none"
                /\ requests' = requests
                /\ cache' = cache
                /\ printed' = printed
          /\ args'.overwrite = "error" =>
                /\ res'.err # "none"
                /\ Contains(res'.err, "exists")
                /\ requests' = requests
                /\ cache' = cache]_vars

\* the file of test_cache_dataset_overwrite_skip after a single call with
\* skip: get_fun was not called and the file still holds 'fake data'
C26_Witness ==
    /\ pc = "cache"
    /\ res.calls = 1
    /\ args.overwrite = "skip"
    /\ res.err = "none"
    /\ cache.file = "fake data"
    /\ requests = <<>>

\* C27: when the cache file exists and overwrite is 'warn', cache_dataset
\* warns that the file exists and does not overwrite the cached dataset.
C27_WarnKeepsFile ==
    [][(pc = "cache" /\ cache.file # Absent /\ args'.overwrite = "warn") =>
          /\ Len(printed') = Len(printed) + 1
          /\ printed'[Len(printed')][1] = "UserWarning"
          /\ Contains(printed'[Len(printed')][2], "exists")
          /\ cache'.file = cache.file]_vars

(***************************************************************************)
(* remove_near_duplicates of nisapi/clean.py, the cleaner of the first     *)
(* datasets.  n_fold_duplication is None or <<n>>.                         *)
(***************************************************************************)
\* the data_schema of nisapi/clean.py
clean_data_schema ==
    << <<"vaccine", "String">>, <<"geographic_type", "String">>,
       <<"geographic_value", "String">>, <<"demographic_type", "String">>,
       <<"demographic_value", "String">>, <<"indicator_type", "String">>,
       <<"indicator_value", "String">>, <<"week_ending", "Date">>,
       <<"estimate", "Float64">>, <<"ci_half_width_95pct", "Float64">> >>

\* the default of the argument value_columns
near_value_columns == {"estimate", "ci_half_width_95pct"}

\* df.group_by(group_columns): the keys, and the rows of one key
NearGroupKeys(B, group_cols) == {Restrict(r, group_cols) : r \in DOMAIN B}

NearGroup(B, group_cols, k) == BagFilter(B, LAMBDA r : Restrict(r, group_cols) = k)

\* the fold check without its filter on the groups of one row
FoldCheckCountsSingles(B, group_cols, n_fold_duplication) ==
    \A k \in NearGroupKeys(B, group_cols) :
        Height(NearGroup(B, group_cols, k)) = n_fold_duplication[1]

\* (group sizes above 1 == n_fold_duplication).all()
FoldCheck(B, group_cols, n_fold_duplication) ==
    \A k \in {g \in NearGroupKeys(B, group_cols) :
                  Height(NearGroup(B, group_cols, g)) > 1} :
        Height(NearGroup(B, group_cols, k)) = n_fold_duplication[1]

ErrTolerance == "Some groups violate tolerance:"

\* the error raised, or the frame returned; order is the iteration order of
\* the set group_columns, followed by value_columns
remove_near_duplicates(frame, tolerance, n_fold_duplication, order) ==
    LET B == frame.rows
        group_cols == Range(Columns(frame)) \ near_value_columns
        out_spread_bad ==
            {k \in NearGroupKeys(B, group_cols) :
                ~ \A c \in near_value_columns :
                    _mean_max_diff(NearGroup(B, group_cols, k), c, tolerance)}
    IN  IF ~ near_value_columns \subseteq Range(Columns(frame))
        THEN [err |-> ErrAssertion, frame |-> NoFrame]
        ELSE IF /\ n_fold_duplication # None
                /\ ~ FoldCheck(B, group_cols, n_fold_duplication)
        THEN [err |-> ErrAssertion, frame |-> NoFrame]
        ELSE IF out_spread_bad # {}
        THEN [err |-> ErrTolerance, frame |-> NoFrame]
        ELSE [err |-> "none",
              frame |-> Frame(
                  [i \in 1..Len(order) |-> <<order[i], DType(frame, order[i])>>],
                  SetToBag({[c \in DOMAIN k \cup near_value_columns |->
                                IF c \in near_value_columns
                                THEN Mean(NearGroup(B, group_cols, k), c)
                                ELSE k[c]] :
                            k \in NearGroupKeys(B, group_cols)}))]

(***************************************************************************)
(* SpecNear: remove_near_duplicates is called on frames whose groups have  *)
(* one to MaxRows rows.                                                    *)
(***************************************************************************)
NearRow(geo, e) ==
    [vaccine |-> "flu", geographic_type |-> "state", geographic_value |-> geo,
     demographic_type |-> "overall", demographic_value |-> "overall",
     indicator_type |-> "4-level vaccination and intent",
     indicator_value |-> "received a vaccination",
     week_ending |-> <<2024, 9, 28>>,
     estimate |-> PerMille(e), ci_half_width_95pct |-> PerMille(20)]

\* 501 is within the tolerance of 500, 520 is not
NearRows == {NearRow(geo, e) : geo \in {"Texas", "Ohio"}, e \in {500, 501, 520}}

\* the frames, without and with a column the function needs
NearFrames ==
    {Frame(clean_data_schema, B) : B \in BagsOf(NearRows)}
    \cup {Frame([i \in 1..9 |-> clean_data_schema[i]],
                SetToBag({Restrict(r, (DOMAIN r) \ {"ci_half_width_95pct"})})) :
             r \in NearRows}

NearArgs ==
    {[tolerance |-> PerMille(1), n_fold_duplication |-> n] :
        n \in {None} \cup {<<k>> : k \in 1..MaxRows}}

InitNear ==
    /\ pc = "near_dedup"
    /\ df \in NearFrames
    /\ args \in NearArgs
    /\ res = NoResult
    /\ res2 = NoResult
    /\ problems = <<>>
    /\ printed = <<>>
    /\ cache = NoCache
    /\ requests = <<>>

RemoveNearDuplicates ==
    /\ pc = "near_dedup"
    /\ \E order \in {SchemaNames(df.schema), Reverse(SchemaNames(df.schema))} :
          res' = remove_near_duplicates(df, args.tolerance,
                                        args.n_fold_duplication, order)
    /\ pc' = "near_deduped"
    /\ UNCHANGED <<df, args, res2, problems, printed, cache, requests>>

NextNear == RemoveNearDuplicates

SpecNear == InitNear /\ [][NextNear]_vars

\* the number of rows of df, copies counted, that agree with r on every
\* column but estimate and ci_half_width_95pct
RowsLike(r) ==
    CountOver(df.rows,
              {s \in DOMAIN df.rows :
                  \A c \in (DOMAIN r) \ {"estimate", "ci_half_width_95pct"} :
                      s[c] = r[c]})

Unlabelled ==
    {r \in DOMAIN df.rows : \A j \in 1..Len(args.synonyms) : ~ HasLabel(r, j)}

\* C29: synonym resolution changes only synonym rows: every row of df whose
\* synonym columns match none of the declared synonyms is still there, with
\* the same values in the group columns, in the frame that goes on to the
\* tolerance check, also when it agrees with a synonym row on every column
\* but the synonym columns.
C29_OnlySynonymRowsChange ==
    (Resolved /\ SynonymsDeclared) =>
        \A r \in Unlabelled :
            \E s \in DOMAIN Checked : \A c \in group_columns : s[c] = r[c]

(***************************************************************************)
(* download_dataset_pages.  df is the dataset at data.cdc.gov, a frame     *)
(* whose rows carry their :id, 0 for the first; requests is the list of    *)
(* the $limit and $offset of the page requests sent so far.                *)
(***************************************************************************)
\* the largest number of rows of the dataset at the server
MaxDatasetRows == 8

\* the largest page_size
MaxPageSize == 4

ErrZeroDivision == "ZeroDivisionError"

ErrHttp == "HTTP request failure"

\* a page count that rounds down
NPagesFloor(n_rows, page_size) == n_rows \div page_size

\* math.ceil(n_rows / page_size), page_size > 0
n_pages(n_rows, page_size) == (n_rows + page_size - 1) \div page_size

\* the rows the server gives for $limit, $offset and $order=:id, as the
\* sequence of their :id
ServerPage(frame, limit, offset) ==
    LET ids == {r.id : r \in DOMAIN frame.rows}
        last == Min(offset + limit - 1, Cardinality(ids) - 1)
    IN  [k \in 1..Max(last - offset + 1, 0) |-> offset + k - 1]

\* download_dataset_records: the request it sends, and the error it raises
\* or the page it returns; status is the status code of the response
download_dataset_records(frame, start_record, end_record, status) ==
    LET limit == end_record - start_record + 1
    IN  IF ~ (end_record >= start_record)
        THEN [err |-> ErrAssertion, sent |-> <<>>, page |-> <<>>]
        ELSE IF status # 200
        THEN [err |-> ErrHttp,
              sent |-> << [limit |-> limit, offset |-> start_record] >>,
              page |-> <<>>]
        ELSE [err |-> "none",
              sent |-> << [limit |-> limit, offset |-> start_record] >>,
              page |-> ServerPage(frame, limit, start_record)]

(***************************************************************************)
(* SpecPages: the generator download_dataset_pages is run to its end.      *)
(***************************************************************************)
ServerFrames ==
    {Frame(<< <<"id", "Int64">> >>, SetToBag({[id |-> k] : k \in 0..(n - 1)})) :
        n \in 0..MaxDatasetRows}

InitPages ==
    /\ pc = "n_dataset_rows"
    /\ df \in ServerFrames
    /\ args \in {[id |-> "sw5n-wg2p", page_size |-> p] : p \in 0..MaxPageSize}
    /\ res = [err |-> "not called", n_rows |-> 0, n_pages |-> 0, i |-> 0,
              pages |-> <<>>]
    /\ res2 = NoResult
    /\ problems = <<>>
    /\ printed = <<>>
    /\ cache = NoCache
    /\ requests = <<>>

\* n_rows = n_dataset_rows(id); n_pages = math.ceil(n_rows / page_size)
CountRows ==
    /\ pc = "n_dataset_rows"
    /\ IF args.page_size = 0
       THEN /\ res' = [res EXCEPT !.err = ErrZeroDivision,
                                  !.n_rows = Height(df.rows)]
            /\ pc' = "raised"
       ELSE /\ res' = [res EXCEPT !.err = "none", !.n_rows = Height(df.rows),
                          !.n_pages = n_pages(Height(df.rows), args.page_size)]
            /\ pc' = "pages"
    /\ UNCHANGED <<df, args, res2, problems, printed, cache, requests>>

\* one turn of the loop: the page i is requested, checked and yielded
DownloadPage ==
    /\ pc = "pages"
    /\ res.i < res.n_pages
    /\ \E status \in {200, 500} :
          LET start_record == res.i * args.page_size
              end_record == (res.i + 1) * args.page_size - 1
              got == download_dataset_records(df, start_record, end_record, status)
          IN  /\ requests' = requests \o got.sent
              /\ IF got.err # "none"
                 THEN res' = [res EXCEPT !.err = got.err] /\ pc' = "raised"
                 ELSE IF ~ (Len(got.page) > 0 /\ Len(got.page) <= args.page_size)
                 THEN res' = [res EXCEPT !.err = ErrAssertion] /\ pc' = "raised"
                 ELSE /\ res' = [res EXCEPT !.i = res.i + 1,
                                            !.pages = Append(res.pages, got.page)]
                      /\ pc' = "pages"
    /\ UNCHANGED <<df, args, res2, problems, printed, cache>>

\* range(n_pages) is used up: the generator ends
PagesExhausted ==
    /\ pc = "pages"
    /\ res.i = res.n_pages
    /\ pc' = "exhausted"
    /\ UNCHANGED <<df, args, res, res2, problems, printed, cache, requests>>

NextPages ==
    \/ CountRows
    \/ DownloadPage
    \/ PagesExhausted

SpecPages == InitPages /\ [][NextPages]_vars

\* the row indexes a request asks for
Asked(request) == request.offset..(request.offset + request.limit - 1)

\* the least number of pages of page_size rows that hold n_rows rows
LeastPages ==
    CHOOSE k \in 0..MaxDatasetRows :
        /\ k * args.page_size >= Height(df.rows)
        /\ \A j \in 0..(k - 1) : j * args.page_size < Height(df.rows)

\* C30: download_dataset_pages requests exactly ceil(n_rows / page_size)
\* pages in increasing order, page i from record i * page_size to record
\* (i + 1) * page_size - 1: the ranges asked for follow each other without
\* gap or overlap and hold every row index 0..n_rows - 1, and for
\* n_rows = 0 no page is requested.
C30_PagesCoverRows ==
    /\ pc \in {"pages", "exhausted"} =>
          /\ Len(requests) = res.i
          /\ \A k \in 1..Len(requests) :
                Asked(requests[k])
                    = ((k - 1) * args.page_size)..(k * args.page_size - 1)
          /\ \A j, k \in 1..Len(requests) :
                j < k => Asked(requests[j]) \cap Asked(requests[k]) = {}
    /\ pc = "exhausted" =>
          /\ Len(requests) = LeastPages
          /\ UNION {Asked(requests[k]) : k \in 1..Len(requests)}
                = 0..(Len(requests) * args.page_size - 1)
          /\ 0..(Height(df.rows) - 1)
                \subseteq UNION {Asked(requests[k]) : k \in 1..Len(requests)}
          /\ Height(df.rows) = 0 => requests = <<>>

\* seven rows in pages of three: three requests, the last page short
C30_Witness ==
    /\ pc = "exhausted"
    /\ Height(df.rows) = 7
    /\ args.page_size = 3
    /\ requests = << [limit |-> 3, offset |-> 0], [limit |-> 3, offset |-> 3],
                     [limit |-> 3, offset |-> 6] >>
    /\ res.pages = << <<0, 1, 2>>, <<3, 4, 5>>, <<6>> >>

====
